---- MODULE Spec2Model ----
(***************************************************************************)
(* Client-side attendance state engine of the Daily Yoga Attendance app    *)
(* (src/app.js): Store, Renderer, Handlers, API.fetchAttendance and the    *)
(* save flow, as a state machine whose steps are the browser's turns       *)
(* (UI events, timer callbacks, JSONP responses).                          *)
(***************************************************************************)
EXTENDS Integers, Sequences, FiniteSets, TLC

\* ------------------------------------------------------------------ bounds
\* attendance pulls issued in one run (the one of init() included)
MaxPulls == 2
\* confirmed saves issued in one run
MaxSaves == 2
\* roster fetches issued in one run (the one of init() included)
MaxFetches == 2
\* user gestures (taps, date/batch changes, search, clear) in one run
MaxSteps == 2
\* save requests the backend receives in one run
MaxExecs == 2

\* ------------------------------------------------------------ value universe
Dates == {"d1", "d2"}
Today == "d1"
Batch1 == "batch_01"
Batch2 == "batch_02"
Batches == {Batch1, Batch2}

LEAVE == "leave"
PRESENT == "present"
ABSENT == "absent"
STATUSES == {LEAVE, PRESENT, ABSENT}

\* CONFIG.BATCHES: the name submitted for, and stored with, each batch key
BatchName(b) == IF b = Batch1 THEN "Batch 01" ELSE "Batch 02"

\* JavaScript's undefined, as a value a lookup can return
Undefined == "undefined"
\* the values JavaScript's || treats as false among the ones the Store meets
Falsy(v) == v \in {Undefined, ""}
\* a || b
OrElse(a, b) == IF Falsy(a) THEN b ELSE a

None == "none"

\* student ids of the source sheet, and the records a roster fetch builds for them
StudentIds == {"s1", "s2"}
NameOf(id) == IF id = "s1" THEN <<"A", "n">> ELSE <<"B", "o">>
AppNumberOf(id) == IF id = "s1" THEN <<"7">> ELSE <<"8">>
IdChars(id) == IF id = "s1" THEN <<"s", "1">> ELSE <<"s", "2">>
Student(id) == [id |-> id, name |-> NameOf(id), appNumber |-> AppNumberOf(id), active |-> TRUE]

\* values of the search box
Queries == {<<>>, <<" ", "B">>, <<"7">>, <<"z">>}

\* ------------------------------------------------------------ string helpers
\* String.prototype.toLowerCase, character by character
LowerChar(c) == CASE c = "A" -> "a" [] c = "B" -> "b" [] c = "P" -> "p" [] OTHER -> c
ToLowerCase(s) == [i \in 1..Len(s) |-> LowerChar(s[i])]

RECURSIVE TrimLeft(_)
TrimLeft(s) == IF s # <<>> /\ Head(s) = " " THEN TrimLeft(Tail(s)) ELSE s
RECURSIVE TrimRight(_)
TrimRight(s) == IF s # <<>> /\ s[Len(s)] = " " THEN TrimRight(SubSeq(s, 1, Len(s) - 1)) ELSE s
\* String.prototype.trim
Trim(s) == TrimRight(TrimLeft(s))

\* String.prototype.includes
Includes(s, q) == \E i \in 0..(Len(s) - Len(q)) : SubSeq(s, i + 1, i + Len(q)) = q

\* the elements of a sequence
Range(s) == {s[i] : i \in 1..Len(s)}

\* Map.set / obj[k] = v
Put(f, k, v) == [x \in (DOMAIN f) \cup {k} |-> IF x = k THEN v ELSE f[x]]
\* Map.get / obj[k]
Get(f, k) == IF k \in DOMAIN f THEN f[k] ELSE Undefined
EmptyMap == [x \in {} |-> LEAVE]

VARIABLES
    studentMap,        \* Store.studentMap: id -> student record
    studentOrder,      \* Store.studentOrder: ids in load order
    attendance,        \* Store.attendance: date -> batch -> (id -> status)
    lockedBatches,     \* Store.lockedBatches: set of lock keys
    currentDate,       \* Store.currentDate
    currentBatch,      \* Store.currentBatch
    searchQuery,       \* Store.searchQuery
    cache,             \* Store._cache
    photoBase64,       \* Store.photoBase64 (TRUE: a compressed photo is held)
    apiUrl,            \* CONFIG.API_URL is non-empty
    cards,             \* the rendered student cards: id -> data-status
    modalOpen,         \* dom.saveModal has class active
    confirmDisabled,   \* dom.confirmSaveBtn.disabled
    searchInput,       \* dom.searchInput.value
    searchTimer,       \* the debounce timer of Handlers.onSearch is pending
    rafPending,        \* Renderer._rafId is set
    lastTapStudentId,  \* Handlers._lastTapStudentId
    singleTapTimer,    \* Handlers._singleTapTimer: None or the pending callback's closure
    popoverStudentId,  \* Handlers._popoverStudentId
    pulls,             \* API.fetchAttendance calls: one record per promise
    saves,             \* Handlers.onConfirmSave calls: one record per call
    rosterFetch,       \* API.fetchStudents requests: one record per request
    steps,             \* user gestures so far
    sheet,             \* the Attendance sheet of the backend: its data rows, in order
    execs,             \* executions of the backend's save handler: one record per request
    mergeReport,       \* what MergeView.open last put in dom.mergeBody
    exportData,        \* what MergeView.exportExcel last handed to XLSX
    sectionBody,       \* what SectionView.open last put in dom.sectionBody
    stored,            \* localStorage[CONFIG.STORAGE_KEYS.ATTENDANCE]
    photoUrls          \* Store.photoUrls: lock key -> url

vars == <<studentMap, studentOrder, attendance, lockedBatches, currentDate, currentBatch,
          searchQuery, cache, photoBase64, apiUrl, cards, modalOpen, confirmDisabled,
          searchInput, searchTimer, rafPending, lastTapStudentId, singleTapTimer,
          popoverStudentId, pulls, saves, rosterFetch, steps, sheet, execs,
          mergeReport, exportData, sectionBody, stored, photoUrls>>

\* the state of the backend
remoteVars == <<sheet, execs>>

\* what the merge view and the section view have produced
reportVars == <<mergeReport, exportData, sectionBody>>

\* the persisted item and the photo links
storeVars == <<stored, photoUrls>>

\* Store.lockKey
lockKey(dateKey, batchKey) == <<dateKey, batchKey>>

\* --------------------------------------------------------- StorageManager
\* localStorage without the item
NoItem == [item |-> FALSE, attendance |-> EmptyMap,
           savedBatches |-> [array |-> TRUE, items |-> <<>>], photoUrls |-> {}]

\* Object.fromEntries(map) as JSON.stringify writes it: the "key": value pairs, a key
\* whose value is undefined left out
Entries(f) == {<<k, f[k]>> : k \in {x \in DOMAIN f : f[x] # Undefined}}

\* the object JSON.parse builds from the pairs
FromEntries(es) == [k \in {e[1] : e \in es} |-> (CHOOSE e \in es : e[1] = k)[2]]

RECURSIVE ArrayFrom(_)
\* Array.from(set)
ArrayFrom(set) ==
    IF set = {} THEN <<>>
    ELSE LET x == CHOOSE y \in set : TRUE IN <<x>> \o ArrayFrom(set \ {x})

\* StorageManager.saveState: the item it writes
saveState(att, locks, urls) ==
    [item |-> TRUE,
     attendance |-> [d \in DOMAIN att |-> [b \in DOMAIN att[d] |-> Entries(att[d][b])]],
     savedBatches |-> [array |-> TRUE, items |-> ArrayFrom(locks)],
     photoUrls |-> Entries(urls)]

\* a variant of the migration that takes every flag for set
RestoreLocks_AllFlags(saved) ==
    IF saved.array THEN Range(saved.items)
    ELSE UNION {{lockKey(d, b) : b \in DOMAIN saved.items[d]} : d \in DOMAIN saved.items}

\* loadState on data.savedBatches: new Set(array), or the keys of the old format
\* { dateKey: { batchKey: true } } whose flag is set
RestoreLocks(saved) ==
    IF saved.array THEN Range(saved.items)
    ELSE UNION {{lockKey(d, b) : b \in {x \in DOMAIN saved.items[d] : saved.items[d][x]}} :
                    d \in DOMAIN saved.items}

\* a variant of loadState that does not read savedBatches
loadState_NoLocks(data) ==
    [attendance |-> [d \in DOMAIN data.attendance |->
                        [b \in DOMAIN data.attendance[d] |-> FromEntries(data.attendance[d][b])]],
     lockedBatches |-> {},
     photoUrls |-> FromEntries(data.photoUrls)]

\* StorageManager.loadState: what it puts in the Store from an item saveState wrote
loadState(data) ==
    [attendance |-> [d \in DOMAIN data.attendance |->
                        [b \in DOMAIN data.attendance[d] |-> FromEntries(data.attendance[d][b])]],
     lockedBatches |-> RestoreLocks(data.savedBatches),
     photoUrls |-> FromEntries(data.photoUrls)]

\* ------------------------------------------------------------------- Store
\* Store.attendance[dateKey]?.[batchKey] is defined
HasGroup(att, dateKey, batchKey) ==
    dateKey \in DOMAIN att /\ batchKey \in DOMAIN att[dateKey]

\* a variant of getStatus that returns what the cell group holds, without `|| leave`
getStatusAt_Raw(att, dateKey, batchKey, studentId) ==
    IF HasGroup(att, dateKey, batchKey)
    THEN Get(att[dateKey][batchKey], studentId)
    ELSE LEAVE

\* Store.getStatus, read at (dateKey, batchKey)
getStatusAt(att, dateKey, batchKey, studentId) ==
    IF HasGroup(att, dateKey, batchKey)
    THEN OrElse(Get(att[dateKey][batchKey], studentId), LEAVE)
    ELSE LEAVE

\* Store.getStatus: reads the current date and batch
getStatus(studentId) == getStatusAt(attendance, currentDate, currentBatch, studentId)

\* the object a date holds, {} when the date has none
DateObj(att, dateKey) == IF dateKey \in DOMAIN att THEN att[dateKey] ELSE EmptyMap

\* Store.attendance[dateKey][batchKey] = group (creating the date object if needed)
SetGroup(att, dateKey, batchKey, group) == Put(att, dateKey, Put(DateObj(att, dateKey), batchKey, group))

\* the cell group of (dateKey, batchKey), empty when there is none
GroupOrEmpty(att, dateKey, batchKey) ==
    IF HasGroup(att, dateKey, batchKey) THEN att[dateKey][batchKey] ELSE EmptyMap

\* a variant of initDateBatch that replaces a cell group that is already there
initDateBatch_Resets(att, smap, dateKey, batchKey) ==
    SetGroup(att, dateKey, batchKey, [id \in DOMAIN smap |-> LEAVE])

\* a variant of initDateBatch that adds the students a cell group lacks
initDateBatch_Fills(att, smap, dateKey, batchKey) ==
    SetGroup(att, dateKey, batchKey,
             [id \in DOMAIN smap |-> getStatusAt(att, dateKey, batchKey, id)])

\* Store.initDateBatch: creates the all-leave cell group when the batch has none
initDateBatch(att, smap, dateKey, batchKey) ==
    IF HasGroup(att, dateKey, batchKey)
    THEN att
    ELSE SetGroup(att, dateKey, batchKey, [id \in DOMAIN smap |-> LEAVE])

\* a variant of setStatus that rebuilds the group around the written entry
setStatus_Rebuilds(att, dateKey, batchKey, studentId, status) ==
    SetGroup(att, dateKey, batchKey,
             [id \in DOMAIN GroupOrEmpty(att, dateKey, batchKey) \cup {studentId} |->
                 IF id = studentId THEN status ELSE LEAVE])

\* Store.setStatus: the attendance it leaves (no lock check in the code)
setStatus(att, dateKey, batchKey, studentId, status) ==
    LET batchData == IF HasGroup(att, dateKey, batchKey) THEN att[dateKey][batchKey] ELSE EmptyMap
    IN SetGroup(att, dateKey, batchKey, Put(batchData, studentId, status))

\* Store.isLocked
isLocked == lockKey(currentDate, currentBatch) \in lockedBatches

\* Store.isDateBatchLocked
isDateBatchLocked(dateKey, batchKey) == lockKey(dateKey, batchKey) \in lockedBatches

\* a variant of getBatch1PresentSet that finds nobody
getBatch1PresentSet_Nobody(att, dateKey, batchKey) == {}

\* Store.getBatch1PresentSet
getBatch1PresentSet(att, dateKey, batchKey) ==
    IF batchKey # Batch2 THEN {}
    ELSE IF ~HasGroup(att, dateKey, Batch1) THEN {}
    ELSE {id \in DOMAIN att[dateKey][Batch1] : att[dateKey][Batch1][id] = PRESENT}

\* the search filter of Store.getComputed: TRUE when the student is kept
SearchKeeps(q, s) ==
    \/ q = <<>>
    \/ Includes(ToLowerCase(s.name), q)
    \/ Includes(ToLowerCase(s.appNumber), q)
    \/ Includes(ToLowerCase(IdChars(s.id)), q)

\* a variant of the loop that lists the visible students bucket by bucket
Compute_Grouped(order, smap, att, dateKey, batchKey, query) ==
    LET Shown(id) == /\ id \in DOMAIN smap
                     /\ smap[id].active
                     /\ id \notin getBatch1PresentSet(att, dateKey, batchKey)
                     /\ SearchKeeps(ToLowerCase(Trim(query)), smap[id])
        IsPresent(id) == getStatusAt(att, dateKey, batchKey, id) = PRESENT
        IsAbsent(id) == getStatusAt(att, dateKey, batchKey, id) = ABSENT
        IsLeave(id) == ~IsPresent(id) /\ ~IsAbsent(id)
        shown == SelectSeq(order, Shown)
    IN [valid |-> TRUE,
        visible |-> SelectSeq(shown, IsPresent) \o SelectSeq(shown, IsAbsent) \o SelectSeq(shown, IsLeave),
        present |-> SelectSeq(shown, IsPresent),
        absent |-> SelectSeq(shown, IsAbsent),
        leave |-> SelectSeq(shown, IsLeave)]

\* the loop of Store.getComputed: a from-scratch computation
Compute(order, smap, att, dateKey, batchKey, query) ==
    LET batch1Present == getBatch1PresentSet(att, dateKey, batchKey)
        q == ToLowerCase(Trim(query))
        Shown(id) == /\ id \in DOMAIN smap
                     /\ smap[id].active
                     /\ ~(Cardinality(batch1Present) > 0 /\ id \in batch1Present)
                     /\ SearchKeeps(q, smap[id])
        visible == SelectSeq(order, Shown)
        IsPresent(id) == getStatusAt(att, dateKey, batchKey, id) = PRESENT
        IsAbsent(id) == getStatusAt(att, dateKey, batchKey, id) = ABSENT
        IsLeave(id) == ~IsPresent(id) /\ ~IsAbsent(id)
    IN [valid |-> TRUE,
        visible |-> visible,
        present |-> SelectSeq(visible, IsPresent),
        absent |-> SelectSeq(visible, IsAbsent),
        leave |-> SelectSeq(visible, IsLeave)]

\* a variant of _invalidateCache that leaves the cache valid
invalidateCache_Keeps(c) == c

\* Store._invalidateCache
invalidateCache(c) == [c EXCEPT !.valid = FALSE]

\* Store.getComputed: the cache it returns (and leaves in Store._cache)
getComputed(c, order, smap, att, dateKey, batchKey, query) ==
    IF c.valid THEN c ELSE Compute(order, smap, att, dateKey, batchKey, query)

\* Store.getFinalStatus
getFinalStatus_First(b1, b2) == IF b1 # LEAVE THEN b1 ELSE b2

\* Store.getFinalStatus
getFinalStatus(b1, b2) ==
    IF b1 = PRESENT \/ b2 = PRESENT THEN PRESENT
    ELSE IF b1 = ABSENT \/ b2 = ABSENT THEN ABSENT
    ELSE LEAVE

\* ---------------------------------------------------------------- Renderer
\* Renderer._renderPile over the three piles: the cards in the DOM, each with its pile
CardsOf(c) ==
    [id \in Range(c.visible) |->
        IF id \in Range(c.present) THEN PRESENT
        ELSE IF id \in Range(c.absent) THEN ABSENT
        ELSE LEAVE]

\* ------------------------------------------------------------ remote rows
BatchNameChars(b) == IF b = Batch1 THEN <<"B", "a", "t", "c", "h", " ", "0", "1">>
                     ELSE <<"B", "a", "t", "c", "h", " ", "0", "2">>

\* the rows the Attendance sheet can answer a pull of `date` with: cells 0, 1, 2 and 5
\* of a row, "" for an empty cell. The last three are a row without a student id, a row
\* of another date and a row without a status.
RemoteRows(date) ==
    {[c0 |-> date, c1 |-> BatchNameChars(Batch1), c2 |-> "s1", c5 |-> "Present"],
     [c0 |-> date, c1 |-> BatchNameChars(Batch2), c2 |-> "s2", c5 |-> "Absent"],
     [c0 |-> date, c1 |-> BatchNameChars(Batch2), c2 |-> "", c5 |-> "Present"],
     [c0 |-> date, c1 |-> BatchNameChars(Batch1), c2 |-> "s1", c5 |-> ""]}
    \cup {[c0 |-> d, c1 |-> BatchNameChars(Batch1), c2 |-> "s1", c5 |-> "Present"] :
            d \in Dates \ {date}}

\* the row lists a response can carry: no row, one row, two rows in either order
RowLists(date) ==
    {<<>>} \cup {<<r>> : r \in RemoteRows(date)}
           \cup {<<r, q>> : r \in RemoteRows(date), q \in RemoteRows(date)}

\* the responses a pull of `date` can get: a table of rows, or something else
Responses(date) ==
    {[table |-> TRUE, rows |-> rows] : rows \in RowLists(date)}
    \cup {[table |-> FALSE, rows |-> <<>>]}

\* rows of a sheet that was edited by hand: a status cell that is none of the three
\* words, and one written in capitals with blanks around it
HandRows(date) ==
    {[c0 |-> date, c1 |-> BatchNameChars(Batch1), c2 |-> "s1", c5 |-> "Late"],
     [c0 |-> date, c1 |-> BatchNameChars(Batch1), c2 |-> "s2", c5 |-> " ABSENT "]}

\* the responses of two rows of which one has no student id and the other is a row
\* of the pulled date with one
MixedResponses(date) ==
    LET NoId == {r \in RemoteRows(date) : r.c2 = ""}
        Valid == {r \in RemoteRows(date) : r.c2 # "" /\ r.c0 = date}
    IN {[table |-> TRUE, rows |-> <<r, q>>] : r \in NoId, q \in Valid}
       \cup {[table |-> TRUE, rows |-> <<q, r>>] : r \in NoId, q \in Valid}

\* the responses that carry exactly one row
OneRowResponses(date) == {[table |-> TRUE, rows |-> <<row>>] : row \in RemoteRows(date)}

\* String(v).trim().toLowerCase() of a status cell
StatusLower(v) ==
    CASE v = "Present" -> PRESENT [] v = "Absent" -> ABSENT [] v = "Leave" -> LEAVE
      [] v = "Late" -> "late" [] v = " ABSENT " -> ABSENT [] OTHER -> v

\* the status fetchAttendance reads from cell 5
RowStatus(row) == IF row.c5 # "" THEN StatusLower(row.c5) ELSE LEAVE

\* the batch key fetchAttendance maps a batch name to
BatchKeyOfName(name) ==
    IF Includes(name, <<"0", "1">>) \/ Includes(name, <<"5", ":", "3", "0">>)
    THEN Batch1 ELSE Batch2

\* the same, tabulated once for the names the sheet holds
BatchKeys == [name \in {BatchNameChars(b) : b \in Batches} |-> BatchKeyOfName(name)]

\* the batch key of a row
RowBatchKey(row) == BatchKeys[row.c1]

\* a row fetchAttendance keeps: it has a student id and the pulled date
RowKept(row, date) == ~(row.c2 = "" \/ row.c0 # date)

\* batches[batchKey] of fetchAttendance: the kept rows of a batch, in row order
BatchRecs(rows, date, batchKey) ==
    LET Mine(row) == RowKept(row, date) /\ RowBatchKey(row) = batchKey
    IN SelectSeq(rows, Mine)

\* the keys of `batches`
BatchesFound(rows, date) == {b \in Batches : BatchRecs(rows, date, b) # <<>>}

RECURSIVE Overlay(_, _)
\* "Override with cloud data": the records set one after the other
Overlay(batchMap, recs) ==
    IF recs = <<>> THEN batchMap
    ELSE Overlay(Put(batchMap, Head(recs).c2, OrElse(RowStatus(Head(recs)), LEAVE)), Tail(recs))

\* a variant of the merge that overlays the remote statuses on the local cell group
\* of the current batch instead of on a fresh all-leave group
PulledGroup_Merges(smap, recs) ==
    Overlay(IF HasGroup(attendance, currentDate, currentBatch)
            THEN attendance[currentDate][currentBatch]
            ELSE [id \in DOMAIN smap |-> LEAVE], recs)

\* the cell group fetchAttendance builds for one batch
PulledGroup(smap, recs) == Overlay([id \in DOMAIN smap |-> LEAVE], recs)

RECURSIVE MergeBatches(_, _, _, _, _)
\* "Merge into Store": the attendance after every batch found has been replaced
MergeBatches(att, smap, rows, date, todo) ==
    IF todo = {} THEN att
    ELSE LET b == CHOOSE x \in todo : TRUE
         IN MergeBatches(SetGroup(att, date, b, PulledGroup(smap, BatchRecs(rows, date, b))),
                         smap, rows, date, todo \ {b})

\* a variant of the merge that gives up the whole response on a row without student id
PullAttendance_AllOrNothing(att, smap, rows, date) ==
    IF \E k \in 1..Len(rows) : rows[k].c2 = ""
    THEN Put(att, date, DateObj(att, date))
    ELSE MergeBatches(Put(att, date, DateObj(att, date)), smap, rows, date, BatchesFound(rows, date))

\* the attendance a response with at least one row leaves
PullAttendance(att, smap, rows, date) ==
    MergeBatches(Put(att, date, DateObj(att, date)), smap, rows, date, BatchesFound(rows, date))

\* a variant of the locking that keeps only the keys of the batches found
PullLocks_Replaces(locks, rows, date) == {lockKey(date, b) : b \in BatchesFound(rows, date)}

\* a variant of the locking that keys the batches found by the date on screen
PullLocks_Current(locks, rows, date) ==
    locks \cup {lockKey(currentDate, b) : b \in BatchesFound(rows, date)}

\* the lock set a response with at least one row leaves
PullLocks(locks, rows, date) == locks \cup {lockKey(date, b) : b \in BatchesFound(rows, date)}

\* what the promise of fetchAttendance resolves to for a response
PullResolves(resp) == IF resp.table /\ Len(resp.rows) > 0 THEN "true" ELSE "false"

\* ------------------------------------------------------------------- Init
NoTimer == [studentId |-> None, currentStatus |-> None]
NoKey == <<>>
NoSection == [open |-> FALSE, date |-> None,
              stats |-> [b \in Batches |-> [present |-> 0, absent |-> 0, leave |-> 0]],
              locked |-> [b \in Batches |-> FALSE]]
EmptyCache == [valid |-> FALSE, visible |-> <<>>, present |-> <<>>, absent |-> <<>>, leave |-> <<>>]

\* CONFIG.SHEET_ID is never empty: config.js sets it and the settings keep a non-empty value
SheetConfigured == TRUE

\* API.fetchAttendance(date): the promise it adds
NewPull(date) ==
    IF SheetConfigured
    THEN [date |-> date, phase |-> "wait", result |-> None]
    ELSE [date |-> date, phase |-> "done", result |-> "false"]

\* API.fetchStudents: the request it adds
NewFetch == [phase |-> IF apiUrl THEN "gas" ELSE "jsonp"]

\* items an earlier version of the page left in localStorage: savedBatches as an
\* array of keys, or in the old format { dateKey: { batchKey: true } }
LegacyItems ==
    {[item |-> TRUE, attendance |-> EmptyMap, savedBatches |-> saved, photoUrls |-> {}] :
        saved \in {[array |-> TRUE, items |-> <<lockKey("d1", Batch1)>>],
                   [array |-> TRUE, items |-> <<lockKey("d2", Batch2), lockKey("d1", Batch1)>>],
                   [array |-> FALSE, items |-> [d \in {"d1"} |-> [b \in Batches |-> b = Batch1]]],
                   [array |-> FALSE, items |-> [d \in Dates |-> [b \in {Batch2} |-> d = "d2"]]],
                   [array |-> FALSE, items |-> [d \in Dates |-> [b \in Batches |-> TRUE]]],
                   [array |-> FALSE, items |-> [d \in {"d2"} |-> [b \in Batches |-> FALSE]]]}}

\* the state init() leaves when localStorage held item: what loadState read from it,
\* today selected, both fetches in flight
InitWith(item) ==
    /\ studentMap = EmptyMap
    /\ studentOrder = <<>>
    /\ attendance = IF item.item THEN loadState(item).attendance ELSE EmptyMap
    /\ lockedBatches = IF item.item THEN loadState(item).lockedBatches ELSE {}
    /\ currentDate = Today
    /\ currentBatch = Batch1
    /\ searchQuery = <<>>
    /\ cache = EmptyCache
    /\ photoBase64 = FALSE
    /\ apiUrl = TRUE
    /\ cards = EmptyMap
    /\ modalOpen = FALSE
    /\ confirmDisabled = FALSE
    /\ searchInput = <<>>
    /\ searchTimer = FALSE
    /\ rafPending = FALSE
    /\ lastTapStudentId = None
    /\ singleTapTimer = NoTimer
    /\ popoverStudentId = None
    /\ pulls = <<NewPull(Today)>>
    /\ saves = <<>>
    /\ rosterFetch = <<[phase |-> "gas"]>>
    /\ steps = 0
    /\ sheet = <<>>
    /\ execs = <<>>
    /\ mergeReport = [open |-> FALSE, rows |-> <<>>, b1Present |-> 0, b1Absent |-> 0,
                      b2Present |-> 0, b2Absent |-> 0, finalPresent |-> 0, finalAbsent |-> 0,
                      finalLeave |-> 0]
    /\ exportData = [written |-> FALSE, rows |-> <<>>]
    /\ sectionBody = NoSection
    /\ stored = item
    /\ photoUrls = IF item.item THEN loadState(item).photoUrls ELSE EmptyMap

\* the state init() leaves with nothing persisted
Init == InitWith(NoItem)

\* ------------------------------------------------------------ roster fetch
\* the rosters the Apps Script endpoint can answer with (server order)
Rosters == {<<>>, <<"s1">>, <<"s2">>, <<"s1", "s2">>, <<"s2", "s1">>}

\* students.sort((a, b) => a.name.localeCompare(b.name)) of _fetchViaJSONP
SortByName(students) ==
    IF Len(students) = 2 /\ students[1] = "s2" THEN <<"s1", "s2">> ELSE students

\* Store.setStudents: the index and the order it leaves
setStudentsMap(students) == [id \in Range(students) |-> Student(id)]
setStudentsOrder(students) == students

uiVars == <<photoBase64, apiUrl, modalOpen, confirmDisabled, searchInput, searchTimer, rafPending, popoverStudentId>>
tapVars == <<lastTapStudentId, singleTapTimer>>
viewVars == <<currentDate, currentBatch, searchQuery>>
netVars == <<pulls, saves, rosterFetch>>

\* API._onStudentsLoaded
onStudentsLoaded(students) ==
    /\ studentMap' = setStudentsMap(students)
    /\ studentOrder' = setStudentsOrder(students)
    /\ attendance' = initDateBatch(attendance, studentMap', currentDate, currentBatch)
    /\ cache' = getComputed(invalidateCache(cache), studentOrder', studentMap', attendance',
                            currentDate, currentBatch, searchQuery)
    /\ cards' = CardsOf(cache')

\* the callback of API._fetchViaAppsScript with a well-formed answer
GasResponse(i, students) ==
    /\ i \in 1..Len(rosterFetch)
    /\ rosterFetch[i].phase = "gas"
    /\ students \in Rosters
    /\ onStudentsLoaded(students)
    /\ rosterFetch' = [rosterFetch EXCEPT ![i].phase = "done"]
    /\ UNCHANGED <<lockedBatches, viewVars, uiVars, tapVars, pulls, saves, steps>>
    /\ UNCHANGED remoteVars
    /\ UNCHANGED reportVars
    /\ UNCHANGED storeVars

\* API._fetchViaAppsScript answered without success, or its script.onerror: fall back
GasFailure(i) ==
    /\ i \in 1..Len(rosterFetch)
    /\ rosterFetch[i].phase = "gas"
    /\ rosterFetch' = [rosterFetch EXCEPT ![i].phase = "jsonp"]
    /\ UNCHANGED <<studentMap, studentOrder, attendance, lockedBatches, viewVars, cache, cards,
                   uiVars, tapVars, pulls, saves, steps>>
    /\ UNCHANGED remoteVars
    /\ UNCHANGED reportVars
    /\ UNCHANGED storeVars

\* the callback of API._fetchViaJSONP with a table
JsonpResponse(i, students) ==
    /\ i \in 1..Len(rosterFetch)
    /\ rosterFetch[i].phase = "jsonp"
    /\ students \in Rosters
    /\ onStudentsLoaded(SortByName(students))
    /\ rosterFetch' = [rosterFetch EXCEPT ![i].phase = "done"]
    /\ UNCHANGED <<lockedBatches, viewVars, uiVars, tapVars, pulls, saves, steps>>
    /\ UNCHANGED remoteVars
    /\ UNCHANGED reportVars
    /\ UNCHANGED storeVars

\* a fallback failure that would empty the roster
JsonpFailure_Clears(i) ==
    /\ i \in 1..Len(rosterFetch)
    /\ rosterFetch[i].phase = "jsonp"
    /\ rosterFetch' = [rosterFetch EXCEPT ![i].phase = "failed"]
    /\ studentMap' = EmptyMap
    /\ studentOrder' = <<>>
    /\ UNCHANGED <<attendance, lockedBatches, viewVars, cache, cards,
                   uiVars, tapVars, pulls, saves, steps>>
    /\ UNCHANGED remoteVars
    /\ UNCHANGED reportVars
    /\ UNCHANGED storeVars

\* API._fetchViaJSONP answered without a table or with rows that cannot be read, or
\* its script.onerror: the error toast is shown and loading ends
JsonpFailure(i) ==
    /\ i \in 1..Len(rosterFetch)
    /\ rosterFetch[i].phase = "jsonp"
    /\ rosterFetch' = [rosterFetch EXCEPT ![i].phase = "failed"]
    /\ UNCHANGED <<studentMap, studentOrder, attendance, lockedBatches, viewVars, cache, cards,
                   uiVars, tapVars, pulls, saves, steps>>
    /\ UNCHANGED remoteVars
    /\ UNCHANGED reportVars
    /\ UNCHANGED storeVars

\* ------------------------------------------------------------------ taps
\* the status a double tap writes for a card shown with currentStatus
DoubleTapStatus(currentStatus) == IF currentStatus = ABSENT THEN LEAVE ELSE ABSENT

\* the status the single-tap timer writes for a card shown with currentStatus
SingleTapStatus(currentStatus) == IF currentStatus = LEAVE THEN PRESENT ELSE LEAVE

\* the guard of Handlers.onStudentClick: TRUE when the click is handled
ClickAllowed == ~isLocked

\* Handlers.onStudentClick on the card of studentId; within: now - _lastTapTime < 250
onStudentClick(studentId, within) ==
    /\ steps < MaxSteps
    /\ ~modalOpen
    /\ studentId \in DOMAIN cards
    /\ within \in BOOLEAN
    /\ steps' = steps + 1
    /\ IF ~ClickAllowed
       THEN UNCHANGED <<attendance, cache, cards, tapVars>>
       ELSE IF lastTapStudentId = studentId /\ within
       THEN /\ singleTapTimer' = NoTimer
            /\ lastTapStudentId' = None
            /\ attendance' = setStatus(attendance, currentDate, currentBatch, studentId,
                                       DoubleTapStatus(cards[studentId]))
            /\ cache' = getComputed(invalidateCache(cache), studentOrder, studentMap, attendance',
                                    currentDate, currentBatch, searchQuery)
            /\ cards' = CardsOf(cache')
       ELSE /\ lastTapStudentId' = studentId
            /\ singleTapTimer' = [studentId |-> studentId, currentStatus |-> cards[studentId]]
            /\ UNCHANGED <<attendance, cache, cards>>
    /\ UNCHANGED <<studentMap, studentOrder, lockedBatches, viewVars, uiVars, netVars>>
    /\ UNCHANGED remoteVars
    /\ UNCHANGED reportVars
    /\ stored' = IF ClickAllowed /\ lastTapStudentId = studentId /\ within
                 THEN saveState(attendance', lockedBatches, photoUrls) ELSE stored
    /\ UNCHANGED photoUrls

\* the callback Handlers.onStudentClick hands to setTimeout(..., 250)
SingleTapTimerFires ==
    /\ singleTapTimer # NoTimer
    /\ lastTapStudentId' = None
    /\ singleTapTimer' = NoTimer
    /\ IF singleTapTimer.currentStatus \in STATUSES
       THEN /\ attendance' = setStatus(attendance, currentDate, currentBatch,
                                       singleTapTimer.studentId,
                                       SingleTapStatus(singleTapTimer.currentStatus))
            /\ cache' = getComputed(invalidateCache(cache), studentOrder, studentMap, attendance',
                                    currentDate, currentBatch, searchQuery)
            /\ stored' = saveState(attendance', lockedBatches, photoUrls)
       ELSE /\ UNCHANGED <<attendance, stored>>
            /\ cache' = getComputed(cache, studentOrder, studentMap, attendance,
                                    currentDate, currentBatch, searchQuery)
    /\ cards' = CardsOf(cache')
    /\ UNCHANGED <<studentMap, studentOrder, lockedBatches, viewVars, uiVars, netVars, steps>>
    /\ UNCHANGED remoteVars
    /\ UNCHANGED reportVars
    /\ UNCHANGED photoUrls

\* Handlers.onPopoverAction with data-action = action
onPopoverAction(action) ==
    /\ action \in STATUSES
    /\ IF popoverStudentId # None /\ ~isLocked
       THEN /\ attendance' = setStatus(attendance, currentDate, currentBatch, popoverStudentId, action)
            /\ popoverStudentId' = None
            /\ cache' = getComputed(invalidateCache(cache), studentOrder, studentMap, attendance',
                                    currentDate, currentBatch, searchQuery)
            /\ cards' = CardsOf(cache')
       ELSE UNCHANGED <<attendance, popoverStudentId, cache, cards>>
    /\ UNCHANGED <<studentMap, studentOrder, lockedBatches, viewVars, photoBase64, apiUrl, modalOpen,
                   confirmDisabled, searchInput, searchTimer, rafPending, tapVars, netVars, steps>>
    /\ UNCHANGED remoteVars
    /\ UNCHANGED reportVars
    /\ stored' = IF popoverStudentId # None /\ ~isLocked
                 THEN saveState(attendance', lockedBatches, photoUrls) ELSE stored
    /\ UNCHANGED photoUrls

\* ------------------------------------------------------- date, batch, search
\* Handlers.onDateChange with dom.datePicker.value = date
onDateChange(date) ==
    /\ steps < MaxSteps
    /\ ~modalOpen
    /\ date \in Dates \ {currentDate}
    /\ Len(pulls) < MaxPulls
    /\ steps' = steps + 1
    /\ currentDate' = date
    /\ attendance' = initDateBatch(attendance, studentMap, date, currentBatch)
    /\ cache' = getComputed(invalidateCache(cache), studentOrder, studentMap, attendance',
                            date, currentBatch, searchQuery)
    /\ cards' = CardsOf(cache')
    /\ pulls' = Append(pulls, NewPull(date))
    /\ UNCHANGED <<studentMap, studentOrder, lockedBatches, currentBatch, searchQuery, uiVars,
                   tapVars, saves, rosterFetch>>
    /\ UNCHANGED remoteVars
    /\ UNCHANGED reportVars
    /\ UNCHANGED storeVars

\* Handlers.onBatchChange with dom.batchSelect.value = batch
onBatchChange(batch) ==
    /\ steps < MaxSteps
    /\ ~modalOpen
    /\ batch \in Batches \ {currentBatch}
    /\ steps' = steps + 1
    /\ currentBatch' = batch
    /\ attendance' = initDateBatch(attendance, studentMap, currentDate, batch)
    /\ cache' = getComputed(invalidateCache(cache), studentOrder, studentMap, attendance',
                            currentDate, batch, searchQuery)
    /\ cards' = CardsOf(cache')
    /\ UNCHANGED <<studentMap, studentOrder, lockedBatches, currentDate, searchQuery, uiVars,
                   tapVars, netVars>>
    /\ UNCHANGED remoteVars
    /\ UNCHANGED reportVars
    /\ UNCHANGED storeVars

\* an input event of the search box: Utils.debounce restarts its timer
onSearchInput(value) ==
    /\ steps < MaxSteps
    /\ ~modalOpen
    /\ value \in Queries \ {searchInput}
    /\ steps' = steps + 1
    /\ searchInput' = value
    /\ searchTimer' = TRUE
    /\ UNCHANGED <<studentMap, studentOrder, attendance, lockedBatches, viewVars, cache, cards,
                   photoBase64, apiUrl, modalOpen, confirmDisabled, rafPending, popoverStudentId,
                   tapVars, netVars>>
    /\ UNCHANGED remoteVars
    /\ UNCHANGED reportVars
    /\ UNCHANGED storeVars

\* a variant of the debounced body that returns early when the search box is empty
onSearch_IgnoresEmpty ==
    /\ searchTimer
    /\ searchTimer' = FALSE
    /\ IF searchInput = <<>>
       THEN UNCHANGED <<searchQuery, cache, rafPending>>
       ELSE /\ searchQuery' = searchInput
            /\ cache' = invalidateCache(cache)
            /\ rafPending' = TRUE
    /\ UNCHANGED <<studentMap, studentOrder, attendance, lockedBatches, currentDate, currentBatch,
                   cards, photoBase64, apiUrl, modalOpen, confirmDisabled, searchInput,
                   popoverStudentId, tapVars, netVars, steps>>
    /\ UNCHANGED remoteVars
    /\ UNCHANGED reportVars
    /\ UNCHANGED storeVars

\* the debounced body of Handlers.onSearch, with Renderer.scheduleRender
onSearch ==
    /\ searchTimer
    /\ searchTimer' = FALSE
    /\ searchQuery' = searchInput
    /\ cache' = invalidateCache(cache)
    /\ rafPending' = TRUE
    /\ UNCHANGED <<studentMap, studentOrder, attendance, lockedBatches, currentDate, currentBatch,
                   cards, photoBase64, apiUrl, modalOpen, confirmDisabled, searchInput,
                   popoverStudentId, tapVars, netVars, steps>>
    /\ UNCHANGED remoteVars
    /\ UNCHANGED reportVars
    /\ UNCHANGED storeVars

\* the animation frame Renderer.scheduleRender asked for
AnimationFrame ==
    /\ rafPending
    /\ rafPending' = FALSE
    /\ cache' = getComputed(cache, studentOrder, studentMap, attendance,
                            currentDate, currentBatch, searchQuery)
    /\ cards' = CardsOf(cache')
    /\ UNCHANGED <<studentMap, studentOrder, attendance, lockedBatches, viewVars, photoBase64, apiUrl,
                   modalOpen, confirmDisabled, searchInput, searchTimer, popoverStudentId,
                   tapVars, netVars, steps>>
    /\ UNCHANGED remoteVars
    /\ UNCHANGED reportVars
    /\ UNCHANGED storeVars

\* Handlers.onRefresh
onRefresh ==
    /\ steps < MaxSteps
    /\ ~modalOpen
    /\ Len(pulls) < MaxPulls
    /\ Len(rosterFetch) < MaxFetches
    /\ steps' = steps + 1
    /\ rosterFetch' = Append(rosterFetch, NewFetch)
    /\ pulls' = Append(pulls, NewPull(currentDate))
    /\ UNCHANGED <<studentMap, studentOrder, attendance, lockedBatches, viewVars, cache, cards,
                   uiVars, tapVars, saves>>
    /\ UNCHANGED remoteVars
    /\ UNCHANGED reportVars
    /\ UNCHANGED storeVars

\* ------------------------------------------------------- attendance pull
\* the number of rows of a response that fetchAttendance overlays on a batch
KeptCount(resp, date) ==
    LET Kept(row) == RowKept(row, date) IN Len(SelectSeq(resp.rows, Kept))

\* window[callbackName] of a pull is still defined
PullCallbackDefined(p) == p.phase = "wait"

\* window[callbackName] of API.fetchAttendance is called with a response
PullResponse(i, resp) ==
    /\ i \in 1..Len(pulls)
    /\ PullCallbackDefined(pulls[i])
    /\ IF resp.table /\ Len(resp.rows) > 0
       THEN /\ attendance' = PullAttendance(attendance, studentMap, resp.rows, pulls[i].date)
            /\ lockedBatches' = PullLocks(lockedBatches, resp.rows, pulls[i].date)
            /\ cache' = getComputed(invalidateCache(cache), studentOrder, studentMap, attendance',
                                    currentDate, currentBatch, searchQuery)
            /\ cards' = CardsOf(cache')
       ELSE UNCHANGED <<attendance, lockedBatches, cache, cards>>
    /\ pulls' = [pulls EXCEPT ![i].phase = "done", ![i].result = PullResolves(resp)]
    /\ UNCHANGED <<studentMap, studentOrder, viewVars, uiVars, tapVars, saves, rosterFetch, steps>>
    /\ UNCHANGED remoteVars
    /\ UNCHANGED reportVars
    /\ stored' = IF resp.table /\ Len(resp.rows) > 0
                 THEN saveState(attendance', lockedBatches', photoUrls) ELSE stored
    /\ UNCHANGED photoUrls

\* script.onerror of API.fetchAttendance
PullError(i) ==
    /\ i \in 1..Len(pulls)
    /\ PullCallbackDefined(pulls[i])
    /\ pulls' = [pulls EXCEPT ![i].phase = "done", ![i].result = "false"]
    /\ UNCHANGED <<studentMap, studentOrder, attendance, lockedBatches, viewVars, cache, cards,
                   uiVars, tapVars, saves, rosterFetch, steps>>
    /\ UNCHANGED remoteVars
    /\ UNCHANGED reportVars
    /\ UNCHANGED storeVars

\* the 15 s timer of API.fetchAttendance finds the callback still defined
PullTimeout(i) ==
    /\ i \in 1..Len(pulls)
    /\ PullCallbackDefined(pulls[i])
    /\ pulls' = [pulls EXCEPT ![i].phase = "timedout", ![i].result = "false"]
    /\ UNCHANGED <<studentMap, studentOrder, attendance, lockedBatches, viewVars, cache, cards,
                   uiVars, tapVars, saves, rosterFetch, steps>>
    /\ UNCHANGED remoteVars
    /\ UNCHANGED reportVars
    /\ UNCHANGED storeVars

\* a late answer that would still be merged
PullLateResponse_Applies(i) ==
    /\ i \in 1..Len(pulls)
    /\ pulls[i].phase = "timedout"
    /\ \E resp \in OneRowResponses(pulls[i].date) :
          /\ attendance' = PullAttendance(attendance, studentMap, resp.rows, pulls[i].date)
          /\ lockedBatches' = PullLocks(lockedBatches, resp.rows, pulls[i].date)
    /\ cache' = getComputed(invalidateCache(cache), studentOrder, studentMap, attendance',
                            currentDate, currentBatch, searchQuery)
    /\ cards' = CardsOf(cache')
    /\ pulls' = [pulls EXCEPT ![i].phase = "done"]
    /\ UNCHANGED <<studentMap, studentOrder, viewVars, uiVars, tapVars, saves, rosterFetch, steps>>
    /\ UNCHANGED remoteVars
    /\ UNCHANGED reportVars
    /\ stored' = saveState(attendance', lockedBatches', photoUrls)
    /\ UNCHANGED photoUrls

\* the answer to a pull arrives after cleanup(): its callback is gone and nothing runs
PullLateResponse(i) ==
    /\ i \in 1..Len(pulls)
    /\ pulls[i].phase = "timedout"
    /\ pulls' = [pulls EXCEPT ![i].phase = "done"]
    /\ UNCHANGED <<studentMap, studentOrder, attendance, lockedBatches, viewVars, cache, cards,
                   uiVars, tapVars, saves, rosterFetch, steps>>
    /\ UNCHANGED remoteVars
    /\ UNCHANGED reportVars
    /\ UNCHANGED storeVars

\* ------------------------------------------------------------- save flow
\* Handlers.onSaveClick
onSaveClick ==
    /\ steps < MaxSteps
    /\ ~modalOpen
    /\ steps' = steps + 1
    /\ IF isLocked
       THEN UNCHANGED <<photoBase64, confirmDisabled, cache, modalOpen>>
       ELSE /\ photoBase64' = FALSE
            /\ confirmDisabled' = TRUE
            /\ cache' = getComputed(cache, studentOrder, studentMap, attendance,
                                    currentDate, currentBatch, searchQuery)
            /\ modalOpen' = TRUE
    /\ UNCHANGED <<studentMap, studentOrder, attendance, lockedBatches, viewVars, apiUrl, cards,
                   searchInput, searchTimer, rafPending, popoverStudentId, tapVars, netVars>>
    /\ UNCHANGED remoteVars
    /\ UNCHANGED reportVars
    /\ UNCHANGED storeVars

\* Handlers.onPhotoSelected with a file, and the callback of ImageUtils.compress
onPhotoSelected ==
    /\ modalOpen
    /\ photoBase64' = TRUE
    /\ confirmDisabled' = FALSE
    /\ UNCHANGED <<studentMap, studentOrder, attendance, lockedBatches, viewVars, cache, apiUrl,
                   cards, modalOpen, searchInput, searchTimer, rafPending, popoverStudentId,
                   tapVars, netVars, steps>>
    /\ UNCHANGED remoteVars
    /\ UNCHANGED reportVars
    /\ UNCHANGED storeVars

\* a click on the backdrop of the save modal
onModalBackdropClick ==
    /\ modalOpen
    /\ modalOpen' = FALSE
    /\ UNCHANGED <<studentMap, studentOrder, attendance, lockedBatches, viewVars, cache, cards,
                   photoBase64, apiUrl, confirmDisabled, searchInput, searchTimer, rafPending,
                   popoverStudentId, tapVars, netVars, steps>>
    /\ UNCHANGED remoteVars
    /\ UNCHANGED reportVars
    /\ UNCHANGED storeVars

\* `records` of Handlers.onConfirmSave: one row per visible student, in order
SaveRecords(c, att, dateKey, batchKey) ==
    [i \in 1..Len(c.visible) |->
        [studentId |-> c.visible[i], status |-> getStatusAt(att, dateKey, batchKey, c.visible[i])]]

\* statusMap[r.status] || 'l' of onConfirmSave
StatusCode(status) ==
    CASE status = PRESENT -> "p" [] status = ABSENT -> "a" [] OTHER -> "l"

\* compactRecords of onConfirmSave: id and status code of each record
CompactRecords(records) ==
    [k \in 1..Len(records) |->
        [studentId |-> records[k].studentId, code |-> StatusCode(records[k].status)]]

\* a variant of cloudSaved that takes a push nobody refused for a saved one
cloudSaved_UnlessRefused(outcome) == outcome \notin {"error", "neterror"}

\* cloudSaved after the push ended with `outcome`
cloudSaved(outcome) == outcome = "success"

\* the key Store.lockCurrentBatch adds
lockCurrentBatchKey == lockKey(currentDate, currentBatch)

\* the branch of onConfirmSave that locks: lockCurrentBatch, saveRecords, close, renderAll
FinishLocked(i, outcome, photo) ==
    /\ lockedBatches' = lockedBatches \cup {lockCurrentBatchKey}
    /\ modalOpen' = FALSE
    /\ cache' = getComputed(cache, studentOrder, studentMap, attendance,
                            currentDate, currentBatch, searchQuery)
    /\ cards' = CardsOf(cache')
    /\ confirmDisabled' = FALSE
    /\ saves' = [saves EXCEPT ![i].phase = "done", ![i].outcome = outcome, ![i].photo = photo,
                              ![i].locked = lockCurrentBatchKey]
    /\ stored' = saveState(attendance, lockedBatches', photoUrls)

\* a variant of the failure branch that locks all the same and keeps the button disabled
FinishUnlocked_Locks(i, outcome, phase) ==
    /\ lockedBatches' = lockedBatches \cup {lockCurrentBatchKey}
    /\ modalOpen' = FALSE
    /\ cache' = getComputed(cache, studentOrder, studentMap, attendance,
                            currentDate, currentBatch, searchQuery)
    /\ cards' = CardsOf(cache')
    /\ confirmDisabled' = TRUE
    /\ saves' = [saves EXCEPT ![i].phase = phase, ![i].outcome = outcome,
                              ![i].locked = lockCurrentBatchKey]
    /\ UNCHANGED stored

\* the branch of onConfirmSave that does not lock: saveRecords, close, renderAll
FinishUnlocked(i, outcome, phase) ==
    /\ lockedBatches' = lockedBatches
    /\ modalOpen' = FALSE
    /\ cache' = getComputed(cache, studentOrder, studentMap, attendance,
                            currentDate, currentBatch, searchQuery)
    /\ cards' = CardsOf(cache')
    /\ confirmDisabled' = FALSE
    /\ saves' = [saves EXCEPT ![i].phase = phase, ![i].outcome = outcome]
    /\ UNCHANGED stored

\* the end of the push of onConfirmSave with `outcome`, up to the next await
PushEnds(i, outcome, phase) ==
    IF cloudSaved(outcome)
    THEN IF photoBase64
         THEN /\ saves' = [saves EXCEPT ![i].phase = "photo", ![i].outcome = outcome]
              /\ UNCHANGED <<lockedBatches, modalOpen, cache, cards, confirmDisabled, stored>>
         ELSE FinishLocked(i, outcome, None)
    ELSE FinishUnlocked(i, outcome, phase)

\* Handlers.onConfirmSave, up to its first await
onConfirmSave ==
    /\ modalOpen
    /\ ~confirmDisabled
    /\ Len(saves) < MaxSaves
    /\ IF ~photoBase64
       THEN UNCHANGED <<lockedBatches, modalOpen, cache, cards, confirmDisabled, saves>>
       ELSE LET c == getComputed(cache, studentOrder, studentMap, attendance,
                                 currentDate, currentBatch, searchQuery)
                flow == [date |-> currentDate, batch |-> currentBatch,
                         records |-> SaveRecords(c, attendance, currentDate, currentBatch),
                         phase |-> "push", outcome |-> None, photo |-> None, locked |-> NoKey]
            IN IF apiUrl
               THEN /\ saves' = Append(saves, flow)
                    /\ cache' = c
                    /\ confirmDisabled' = TRUE
                    /\ UNCHANGED <<lockedBatches, modalOpen, cards>>
               ELSE /\ lockedBatches' = lockedBatches \cup {lockCurrentBatchKey}
                    /\ modalOpen' = FALSE
                    /\ cache' = c
                    /\ cards' = CardsOf(c)
                    /\ confirmDisabled' = FALSE
                    /\ saves' = Append(saves, [flow EXCEPT !.phase = "done", !.outcome = "local",
                                                           !.locked = lockCurrentBatchKey])
    /\ UNCHANGED <<studentMap, studentOrder, attendance, viewVars, photoBase64, apiUrl,
                   searchInput, searchTimer, rafPending, popoverStudentId, tapVars, pulls,
                   rosterFetch, steps>>
    /\ UNCHANGED remoteVars
    /\ UNCHANGED reportVars
    /\ stored' = IF photoBase64 /\ ~apiUrl
                 THEN saveState(attendance, lockedBatches', photoUrls) ELSE stored
    /\ UNCHANGED photoUrls

saveFrame == <<studentMap, studentOrder, attendance, viewVars, photoBase64, apiUrl,
               searchInput, searchTimer, rafPending, popoverStudentId, tapVars, pulls,
               rosterFetch, steps, remoteVars, reportVars, photoUrls>>

\* window[cbName] of a save is still defined
PushCallbackDefined(f) == f.phase = "push"

\* window[cbName] of onConfirmSave is called with the backend's result
PushResponse(i, success) ==
    /\ i \in 1..Len(saves)
    /\ PushCallbackDefined(saves[i])
    /\ success \in BOOLEAN
    /\ PushEnds(i, IF success THEN "success" ELSE "error", "done")
    /\ UNCHANGED saveFrame

\* script.onerror of the save request
PushError(i) ==
    /\ i \in 1..Len(saves)
    /\ PushCallbackDefined(saves[i])
    /\ PushEnds(i, "neterror", "done")
    /\ UNCHANGED saveFrame

\* the 30 s timer of the save request finds the callback still defined
PushTimeout(i) ==
    /\ i \in 1..Len(saves)
    /\ PushCallbackDefined(saves[i])
    /\ PushEnds(i, "timeout", "timedout")
    /\ UNCHANGED saveFrame

\* the answer to a save arrives after cleanup(): its callback is gone and nothing runs
PushLateResponse(i) ==
    /\ i \in 1..Len(saves)
    /\ saves[i].phase = "timedout"
    /\ saves' = [saves EXCEPT ![i].phase = "done"]
    /\ UNCHANGED <<lockedBatches, modalOpen, cache, cards, confirmDisabled, stored>>
    /\ UNCHANGED saveFrame

\* the photo upload of onConfirmSave settles (ok) or throws (~ok): both go on to lock
PhotoUploadEnds(i, ok) ==
    /\ i \in 1..Len(saves)
    /\ saves[i].phase = "photo"
    /\ ok \in BOOLEAN
    /\ FinishLocked(i, saves[i].outcome, IF ok THEN "ok" ELSE "failed")
    /\ UNCHANGED saveFrame

\* ------------------------------------------------------------------ clear
\* a variant of the delete that keeps the date
DeleteDate_Keeps(att, dateKey) == att

\* delete Store.attendance[dateKey]
DeleteDate(att, dateKey) == [d \in (DOMAIN att) \ {dateKey} |-> att[d]]

\* the lock keys Handlers.onClearToday keeps
KeysKept(locks, dateKey) == {k \in locks : k[1] # dateKey}

\* Handlers.onClearToday, confirmed
onClearToday ==
    /\ steps < MaxSteps
    /\ ~modalOpen
    /\ steps' = steps + 1
    /\ lockedBatches' = KeysKept(lockedBatches, currentDate)
    /\ attendance' = initDateBatch(DeleteDate(attendance, currentDate), studentMap,
                                   currentDate, currentBatch)
    /\ cache' = getComputed(invalidateCache(cache), studentOrder, studentMap, attendance',
                            currentDate, currentBatch, searchQuery)
    /\ cards' = CardsOf(cache')
    /\ UNCHANGED <<studentMap, studentOrder, viewVars, uiVars, tapVars, netVars>>
    /\ UNCHANGED remoteVars
    /\ UNCHANGED reportVars
    /\ stored' = saveState(DeleteDate(attendance, currentDate), lockedBatches', photoUrls)
    /\ UNCHANGED photoUrls

\* Handlers.onClearAll, confirmed
onClearAll ==
    /\ steps < MaxSteps
    /\ ~modalOpen
    /\ steps' = steps + 1
    /\ lockedBatches' = {}
    /\ attendance' = initDateBatch(EmptyMap, studentMap, currentDate, currentBatch)
    /\ cache' = getComputed(invalidateCache(cache), studentOrder, studentMap, attendance',
                            currentDate, currentBatch, searchQuery)
    /\ cards' = CardsOf(cache')
    /\ UNCHANGED <<studentMap, studentOrder, viewVars, uiVars, tapVars, netVars>>
    /\ UNCHANGED remoteVars
    /\ UNCHANGED reportVars
    /\ stored' = NoItem
    /\ UNCHANGED photoUrls

\* ----------------------------------------------------------------- reload
\* the page is loaded again: init() on a fresh Store, with loadState reading the item;
\* the callbacks of the old page are gone with it
Reload ==
    /\ steps < MaxSteps
    /\ Len(pulls) < MaxPulls
    /\ Len(rosterFetch) < MaxFetches
    /\ steps' = steps + 1
    /\ LET loaded == IF stored.item THEN loadState(stored)
                     ELSE [attendance |-> EmptyMap, lockedBatches |-> {}, photoUrls |-> EmptyMap]
       IN /\ attendance' = loaded.attendance
          /\ lockedBatches' = loaded.lockedBatches
          /\ photoUrls' = loaded.photoUrls
    /\ studentMap' = EmptyMap
    /\ studentOrder' = <<>>
    /\ currentDate' = Today
    /\ currentBatch' = Batch1
    /\ searchQuery' = <<>>
    /\ cache' = EmptyCache
    /\ cards' = EmptyMap
    /\ photoBase64' = FALSE
    /\ modalOpen' = FALSE
    /\ confirmDisabled' = FALSE
    /\ searchInput' = <<>>
    /\ searchTimer' = FALSE
    /\ rafPending' = FALSE
    /\ lastTapStudentId' = None
    /\ singleTapTimer' = NoTimer
    /\ popoverStudentId' = None
    /\ pulls' = Append([k \in 1..Len(pulls) |-> [pulls[k] EXCEPT !.phase = "done"]], NewPull(Today))
    /\ saves' = [k \in 1..Len(saves) |-> [saves[k] EXCEPT !.phase = "done"]]
    /\ rosterFetch' = Append([k \in 1..Len(rosterFetch) |-> [phase |-> "done"]], NewFetch)
    /\ mergeReport' = [open |-> FALSE, rows |-> <<>>, b1Present |-> 0, b1Absent |-> 0,
                       b2Present |-> 0, b2Absent |-> 0, finalPresent |-> 0, finalAbsent |-> 0,
                       finalLeave |-> 0]
    /\ UNCHANGED <<apiUrl, stored, exportData, sectionBody, remoteVars>>

\* ------------------------------------------------------------- merge view
\* the marker of a batch without a cell group
MissingMark == "-"

\* getVal of MergeView.open and getMergedExportData
getVal(att, dateKey, batchKey, id) ==
    IF ~HasGroup(att, dateKey, batchKey) THEN MissingMark
    ELSE OrElse(Get(att[dateKey][batchKey], id), LEAVE)

\* a variant of the final status that keeps the marker when either batch has no group
MergedFinal_Marks(b1, b2) ==
    IF b1 # MissingMark /\ b2 # MissingMark THEN getFinalStatus(b1, b2) ELSE MissingMark

\* finalStatus of one student, from the two values getVal returned
MergedFinal(b1, b2) ==
    IF b1 # MissingMark \/ b2 # MissingMark
    THEN getFinalStatus(IF b1 = MissingMark THEN LEAVE ELSE b1,
                        IF b2 = MissingMark THEN LEAVE ELSE b2)
    ELSE MissingMark

\* the entry MergeView.open pushes for one student
MergedRow(att, dateKey, id) ==
    LET b1 == getVal(att, dateKey, Batch1, id)
        b2 == getVal(att, dateKey, Batch2, id)
    IN [id |-> id, batch1Status |-> b1, batch2Status |-> b2, finalStatus |-> MergedFinal(b1, b2)]

\* a variant of the report that lists the students of the visible piles only
MergedReport_Visible(order, att, dateKey) ==
    LET rows == [k \in 1..Len(cache.visible) |-> MergedRow(att, dateKey, cache.visible[k])]
        N(field, status) == Cardinality({k \in 1..Len(rows) : rows[k][field] = status})
    IN [open |-> TRUE, rows |-> rows,
        b1Present |-> N("batch1Status", PRESENT), b1Absent |-> N("batch1Status", ABSENT),
        b2Present |-> N("batch2Status", PRESENT), b2Absent |-> N("batch2Status", ABSENT),
        finalPresent |-> N("finalStatus", PRESENT), finalAbsent |-> N("finalStatus", ABSENT),
        finalLeave |-> N("finalStatus", LEAVE)]

\* the table and the seven counters MergeView.open builds: one entry per student of
\* getAllStudents, counted in the same pass, then sorted by name
MergedReport(order, att, dateKey) ==
    LET sorted == SortByName(order)
        rows == [k \in 1..Len(sorted) |-> MergedRow(att, dateKey, sorted[k])]
        N(field, status) == Cardinality({k \in 1..Len(rows) : rows[k][field] = status})
    IN [open |-> TRUE, rows |-> rows,
        b1Present |-> N("batch1Status", PRESENT), b1Absent |-> N("batch1Status", ABSENT),
        b2Present |-> N("batch2Status", PRESENT), b2Absent |-> N("batch2Status", ABSENT),
        finalPresent |-> N("finalStatus", PRESENT), finalAbsent |-> N("finalStatus", ABSENT),
        finalLeave |-> N("finalStatus", LEAVE)]

\* Utils.capitalizeStatus
capitalizeStatus(v) ==
    CASE v = MissingMark -> v
      [] v = PRESENT -> "Present" [] v = ABSENT -> "Absent" [] v = LEAVE -> "Leave"
      [] OTHER -> v

\* MergeView.getMergedExportData: the rows of the sheet, sorted by name and numbered
getMergedExportData(order, att, dateKey) ==
    LET sorted == SortByName(order)
    IN [k \in 1..Len(sorted) |->
            LET b1 == getVal(att, dateKey, Batch1, sorted[k])
                b2 == getVal(att, dateKey, Batch2, sorted[k])
            IN [srNo |-> k, studentId |-> sorted[k],
                batch1 |-> capitalizeStatus(b1), batch2 |-> capitalizeStatus(b2),
                finalStatus |-> capitalizeStatus(MergedFinal(b1, b2)), date |-> dateKey]]

\* MergeView.open: the report of the date on screen, or a toast when it has no cell group
MergeView_open ==
    /\ IF ~HasGroup(attendance, currentDate, Batch1) /\ ~HasGroup(attendance, currentDate, Batch2)
       THEN UNCHANGED mergeReport
       ELSE mergeReport' = MergedReport(studentOrder, attendance, currentDate)
    /\ UNCHANGED <<studentMap, studentOrder, attendance, lockedBatches, viewVars, cache, cards,
                   uiVars, tapVars, netVars, steps, remoteVars, exportData, sectionBody,
                   storeVars>>

\* MergeView.exportExcel: the rows it writes
MergeView_exportExcel ==
    /\ exportData' = [written |-> TRUE,
                      rows |-> getMergedExportData(studentOrder, attendance, currentDate)]
    /\ UNCHANGED <<studentMap, studentOrder, attendance, lockedBatches, viewVars, cache, cards,
                   uiVars, tapVars, netVars, steps, remoteVars, mergeReport, sectionBody,
                   storeVars>>

\* ------------------------------------------------------------ section view
\* getStats of SectionView.open over the values of a cell group
getStats(data) ==
    [present |-> Cardinality({id \in DOMAIN data : data[id] = PRESENT}),
     absent |-> Cardinality({id \in DOMAIN data : data[id] = ABSENT}),
     leave |-> Cardinality({id \in DOMAIN data : data[id] \notin {PRESENT, ABSENT}})]

\* the summary card of one batch: getStats of its cell group, zeros when it has none
SectionStats(dateKey, batchKey) ==
    IF HasGroup(attendance, dateKey, batchKey)
    THEN getStats(attendance[dateKey][batchKey])
    ELSE [present |-> 0, absent |-> 0, leave |-> 0]

\* SectionView.open: the two summary cards of the date on screen
SectionView_open ==
    /\ sectionBody' = [open |-> TRUE, date |-> currentDate,
                       stats |-> [b \in Batches |-> SectionStats(currentDate, b)],
                       locked |-> [b \in Batches |-> isDateBatchLocked(currentDate, b)]]
    /\ UNCHANGED <<studentMap, studentOrder, attendance, lockedBatches, viewVars, cache, cards,
                   uiVars, tapVars, netVars, steps, remoteVars, mergeReport, exportData,
                   storeVars>>

\* ------------------------------------------------------------------ backend
\* the compact records a save request can carry: id and status code of each student
RecordLists ==
    {<<>>,
     <<[studentId |-> "s1", code |-> "p"]>>,
     <<[studentId |-> "s1", code |-> "a"], [studentId |-> "s2", code |-> "l"]>>}

\* a variant that stores the code as it came
ExpandStatus_Codes(code) == code

\* "Expand status code" of saveAttendanceViaGet
ExpandStatus(code) ==
    CASE code = "p" -> "Present" [] code = "a" -> "Absent" [] OTHER -> "Leave"

\* the rows saveAttendanceViaGet builds: cells 0, 1, 2, 5 and 7 (Photo_URL) of each
BuildRows(date, batch, records) ==
    [k \in 1..Len(records) |->
        [c0 |-> date, c1 |-> BatchNameChars(batch), c2 |-> records[k].studentId,
         c5 |-> ExpandStatus(records[k].code), c7 |-> ""]]

\* checkBatchLocked over the data rows it read
checkBatchLocked(data, date, batch) ==
    \E k \in 1..Len(data) : data[k].c0 = date /\ data[k].c1 = BatchNameChars(batch)

\* sheet.getRange(startRow, 1, rows.length, 9).setValues(rows): rows land at startRow,
\* over whatever is there
WriteAt(data, startRow, rows) ==
    LET last == IF startRow + Len(rows) - 1 > Len(data)
                THEN startRow + Len(rows) - 1 ELSE Len(data)
    IN [k \in 1..last |->
            IF k >= startRow /\ k < startRow + Len(rows) THEN rows[k - startRow + 1]
            ELSE data[k]]

\* doGet with action=saveViaGet: saveAttendanceViaGet up to the answer of
\* checkBatchLocked, which reads the sheet
saveAttendanceViaGet(date, batch, records) ==
    /\ Len(execs) < MaxExecs
    /\ date \in Dates /\ batch \in Batches /\ records \in RecordLists
    /\ LET exec == [date |-> date, batch |-> batch, rows |-> BuildRows(date, batch, records),
                    startRow |-> 0]
       IN IF records = <<>>
          THEN execs' = Append(execs, exec @@ [phase |-> "done", success |-> FALSE])
          ELSE IF checkBatchLocked(sheet, date, batch)
          THEN execs' = Append(execs, exec @@ [phase |-> "done", success |-> FALSE])
          ELSE execs' = Append(execs, exec @@ [phase |-> "checked", success |-> FALSE])
    /\ UNCHANGED sheet
    /\ UNCHANGED <<studentMap, studentOrder, attendance, lockedBatches, viewVars, cache, cards,
                   uiVars, tapVars, netVars, steps, reportVars,
                   storeVars>>

\* sheet.getLastRow() + 1 of an execution that passed the lock check
getLastRow(i) ==
    /\ i \in 1..Len(execs)
    /\ execs[i].phase = "checked"
    /\ execs' = [execs EXCEPT ![i].phase = "placed", ![i].startRow = Len(sheet) + 1]
    /\ UNCHANGED sheet
    /\ UNCHANGED <<studentMap, studentOrder, attendance, lockedBatches, viewVars, cache, cards,
                   uiVars, tapVars, netVars, steps, reportVars,
                   storeVars>>

\* setValues(rows) of that execution, and its answer
setValues(i) ==
    /\ i \in 1..Len(execs)
    /\ execs[i].phase = "placed"
    /\ sheet' = WriteAt(sheet, execs[i].startRow, execs[i].rows)
    /\ execs' = [execs EXCEPT ![i].phase = "done", ![i].success = TRUE]
    /\ UNCHANGED <<studentMap, studentOrder, attendance, lockedBatches, viewVars, cache, cards,
                   uiVars, tapVars, netVars, steps, reportVars,
                   storeVars>>

\* what uploadPhoto returns: the url of the file, or '' when Drive failed
PhotoUrls == {"", "url"}

\* the loop of uploadPhotoAndUpdateSheet: setValue(photoUrl) in column 8 of the rows
\* of this date and batch
SetPhotoUrl(data, date, batch, photoUrl) ==
    [k \in 1..Len(data) |->
        IF data[k].c0 = date /\ data[k].c1 = BatchNameChars(batch)
        THEN [data[k] EXCEPT !.c7 = photoUrl] ELSE data[k]]

\* a variant whose failure deletes the rows of the batch
uploadPhotoAndUpdateSheet_Deletes(date, batch, photoUrl) ==
    /\ Len(execs) < MaxExecs
    /\ date \in Dates /\ batch \in Batches /\ photoUrl \in PhotoUrls
    /\ sheet' = IF photoUrl = ""
                THEN SelectSeq(sheet, LAMBDA row : ~(row.c0 = date /\ row.c1 = BatchNameChars(batch)))
                ELSE SetPhotoUrl(sheet, date, batch, photoUrl)
    /\ execs' = Append(execs, [date |-> date, batch |-> batch, rows |-> <<>>, startRow |-> 0,
                               phase |-> "photo", success |-> photoUrl # ""])
    /\ UNCHANGED <<studentMap, studentOrder, attendance, lockedBatches, viewVars, cache, cards,
                   uiVars, tapVars, netVars, steps, reportVars,
                   storeVars>>

\* doPost with action 'uploadPhoto': uploadPhotoAndUpdateSheet, where uploadPhoto
\* returned photoUrl
uploadPhotoAndUpdateSheet(date, batch, photoUrl) ==
    /\ Len(execs) < MaxExecs
    /\ date \in Dates /\ batch \in Batches /\ photoUrl \in PhotoUrls
    /\ sheet' = IF photoUrl = "" THEN sheet ELSE SetPhotoUrl(sheet, date, batch, photoUrl)
    /\ execs' = Append(execs, [date |-> date, batch |-> batch, rows |-> <<>>, startRow |-> 0,
                               phase |-> "photo", success |-> photoUrl # ""])
    /\ UNCHANGED <<studentMap, studentOrder, attendance, lockedBatches, viewVars, cache, cards,
                   uiVars, tapVars, netVars, steps, reportVars,
                   storeVars>>

\* ------------------------------------------------------------------- Next
Next ==
    \/ \E i \in 1..MaxFetches, students \in Rosters : GasResponse(i, students)
    \/ \E i \in 1..MaxFetches : GasFailure(i)
    \/ \E i \in 1..MaxFetches, students \in Rosters : JsonpResponse(i, students)
    \/ \E i \in 1..MaxFetches : JsonpFailure(i)
    \/ \E id \in StudentIds, within \in BOOLEAN : onStudentClick(id, within)
    \/ SingleTapTimerFires
    \/ \E action \in STATUSES : onPopoverAction(action)
    \/ \E date \in Dates : onDateChange(date)
    \/ \E batch \in Batches : onBatchChange(batch)
    \/ \E value \in Queries : onSearchInput(value)
    \/ onSearch
    \/ AnimationFrame
    \/ onRefresh
    \/ \E i \in 1..MaxPulls : \E resp \in Responses(IF i <= Len(pulls) THEN pulls[i].date ELSE Today) :
            PullResponse(i, resp)
    \/ \E i \in 1..MaxPulls : PullError(i)
    \/ \E i \in 1..MaxPulls : PullTimeout(i)
    \/ \E i \in 1..MaxPulls : PullLateResponse(i)
    \/ onSaveClick
    \/ onPhotoSelected
    \/ onModalBackdropClick
    \/ onConfirmSave
    \/ \E i \in 1..MaxSaves, success \in BOOLEAN : PushResponse(i, success)
    \/ \E i \in 1..MaxSaves : PushError(i)
    \/ \E i \in 1..MaxSaves : PushTimeout(i)
    \/ \E i \in 1..MaxSaves : PushLateResponse(i)
    \/ \E i \in 1..MaxSaves, ok \in BOOLEAN : PhotoUploadEnds(i, ok)
    \/ onClearToday
    \/ onClearAll
    \/ \E date \in Dates, batch \in Batches, records \in RecordLists :
            saveAttendanceViaGet(date, batch, records)
    \/ \E i \in 1..MaxExecs : getLastRow(i)
    \/ \E i \in 1..MaxExecs : setValues(i)
    \/ MergeView_open
    \/ MergeView_exportExcel
    \/ Reload
    \/ \E date \in Dates, batch \in Batches, photoUrl \in PhotoUrls :
            uploadPhotoAndUpdateSheet(date, batch, photoUrl)
    \/ SectionView_open

Spec == Init /\ [][Next]_vars

\* the lock discipline: roster delivery, taps, the single-tap timer, the popover,
\* date and batch changes and pull responses
NextLock ==
    \/ \E students \in Rosters : GasResponse(1, students)
    \/ \E id \in StudentIds, within \in BOOLEAN : onStudentClick(id, within)
    \/ SingleTapTimerFires
    \/ \E action \in STATUSES : onPopoverAction(action)
    \/ \E date \in Dates : onDateChange(date)
    \/ \E batch \in Batches : onBatchChange(batch)
    \/ \E i \in 1..MaxPulls : \E resp \in OneRowResponses(IF i <= Len(pulls) THEN pulls[i].date ELSE Today) :
            PullResponse(i, resp)

SpecLock == Init /\ [][NextLock]_vars

\* the save protocol: roster delivery, a tap and its timer, the save dialog, the push and
\* its outcomes, the photo upload, and date and batch changes while the push is in flight
NextSave ==
    \/ GasResponse(1, <<"s1", "s2">>)
    \/ \E id \in StudentIds, within \in BOOLEAN : onStudentClick(id, within)
    \/ SingleTapTimerFires
    \/ onSaveClick
    \/ onPhotoSelected
    \/ onModalBackdropClick
    \/ onConfirmSave
    \/ \E i \in 1..MaxSaves, success \in BOOLEAN : PushResponse(i, success)
    \/ \E i \in 1..MaxSaves : PushError(i)
    \/ \E i \in 1..MaxSaves : PushTimeout(i)
    \/ \E i \in 1..MaxSaves : PushLateResponse(i)
    \/ \E i \in 1..MaxSaves, ok \in BOOLEAN : PhotoUploadEnds(i, ok)
    \/ \E date \in Dates : onDateChange(date)
    \/ \E batch \in Batches : onBatchChange(batch)

SpecSave == Init /\ [][NextSave]_vars

\* the computed view: every operation that changes what getComputed reads (roster
\* delivery, status writes, pull responses, date, batch and search changes, the two
\* clears), each followed by the reads of its handler
NextView ==
    \/ \E students \in Rosters : GasResponse(1, students)
    \/ \E id \in StudentIds, within \in BOOLEAN : onStudentClick(id, within)
    \/ SingleTapTimerFires
    \/ \E date \in Dates : onDateChange(date)
    \/ \E batch \in Batches : onBatchChange(batch)
    \/ \E value \in Queries : onSearchInput(value)
    \/ onSearch
    \/ AnimationFrame
    \/ \E i \in 1..MaxPulls : \E resp \in OneRowResponses(IF i <= Len(pulls) THEN pulls[i].date ELSE Today) :
            PullResponse(i, resp)
    \/ onClearToday
    \/ onClearAll

SpecView == Init /\ [][NextView]_vars

\* the attendance pull: roster delivery, local writes, date changes, and every way a
\* pull can end
NextPull ==
    \/ \E students \in Rosters : GasResponse(1, students)
    \/ \E date \in Dates : onDateChange(date)
    \/ \E i \in 1..MaxPulls : \E resp \in Responses(IF i <= Len(pulls) THEN pulls[i].date ELSE Today) :
            PullResponse(i, resp)
    \/ \E i \in 1..MaxPulls : PullError(i)
    \/ \E i \in 1..MaxPulls : PullTimeout(i)
    \/ \E i \in 1..MaxPulls : PullLateResponse(i)

SpecPull == Init /\ [][NextPull]_vars

\* a pull applied over local work: roster delivery, a single tap and its timer, date
\* changes, and the responses a pull can get
NextApply ==
    \/ GasResponse(1, <<"s1">>)
    \/ onStudentClick("s1", FALSE)
    \/ SingleTapTimerFires
    \/ \E date \in Dates : onDateChange(date)
    \/ \E i \in 1..MaxPulls : \E resp \in Responses(IF i <= Len(pulls) THEN pulls[i].date ELSE Today) :
            PullResponse(i, resp)

SpecApply == Init /\ [][NextApply]_vars

\* persistence: the operations that call saveState or removeItem, and a reload
NextStore ==
    \/ \E i \in 1..MaxFetches : GasResponse(i, <<"s1", "s2">>)
    \/ \E id \in StudentIds, within \in BOOLEAN : onStudentClick(id, within)
    \/ SingleTapTimerFires
    \/ \E batch \in Batches : onBatchChange(batch)
    \/ \E i \in 1..MaxPulls : \E resp \in OneRowResponses(IF i <= Len(pulls) THEN pulls[i].date ELSE Today) :
            PullResponse(i, resp)
    \/ onClearToday
    \/ onClearAll
    \/ Reload

SpecStore == Init /\ [][NextStore]_vars

\* the same, started on an item that an earlier version left
SpecLegacy == (\E item \in LegacyItems : InitWith(item)) /\ [][NextStore]_vars

\* Store.setStudents(students), called on the Store as it is
Store_setStudents(students) ==
    /\ students \in Rosters
    /\ studentMap' = setStudentsMap(students)
    /\ studentOrder' = setStudentsOrder(students)
    /\ cache' = invalidateCache(cache)
    /\ UNCHANGED <<attendance, lockedBatches, viewVars, cards, uiVars, tapVars, netVars, steps>>
    /\ UNCHANGED remoteVars
    /\ UNCHANGED reportVars
    /\ UNCHANGED storeVars

\* Store.initDateBatch(dateKey, batchKey), called on the Store as it is
Store_initDateBatch(dateKey, batchKey) ==
    /\ dateKey \in Dates /\ batchKey \in Batches
    /\ attendance' = initDateBatch(attendance, studentMap, dateKey, batchKey)
    /\ UNCHANGED <<studentMap, studentOrder, lockedBatches, viewVars, cache, cards, uiVars,
                   tapVars, netVars, steps>>
    /\ UNCHANGED remoteVars
    /\ UNCHANGED reportVars
    /\ UNCHANGED storeVars

\* a variant of Store.setStatus that creates a missing group with initDateBatch
Store_setStatus_Ensures(studentId, status) ==
    /\ studentId \in StudentIds /\ status \in STATUSES
    /\ attendance' = setStatus(initDateBatch(attendance, studentMap, currentDate, currentBatch),
                               currentDate, currentBatch, studentId, status)
    /\ cache' = invalidateCache(cache)
    /\ UNCHANGED <<studentMap, studentOrder, lockedBatches, viewVars, cards, uiVars,
                   tapVars, netVars, steps>>
    /\ UNCHANGED remoteVars
    /\ UNCHANGED reportVars
    /\ stored' = saveState(attendance', lockedBatches, photoUrls)
    /\ UNCHANGED photoUrls

\* Store.setStatus(studentId, status), called on the Store as it is
Store_setStatus(studentId, status) ==
    /\ studentId \in StudentIds /\ status \in STATUSES
    /\ attendance' = setStatus(attendance, currentDate, currentBatch, studentId, status)
    /\ cache' = invalidateCache(cache)
    /\ UNCHANGED <<studentMap, studentOrder, lockedBatches, viewVars, cards, uiVars,
                   tapVars, netVars, steps>>
    /\ UNCHANGED remoteVars
    /\ UNCHANGED reportVars
    /\ stored' = saveState(attendance', lockedBatches, photoUrls)
    /\ UNCHANGED photoUrls

\* the section view, with what fills the ledger: the roster, the pulls and the taps
NextSection ==
    \/ \E students \in {<<"s1">>, <<"s1", "s2">>} : GasResponse(1, students)
    \/ \E id \in StudentIds : onStudentClick(id, FALSE)
    \/ SingleTapTimerFires
    \/ \E i \in 1..MaxPulls : \E resp \in OneRowResponses(IF i <= Len(pulls) THEN pulls[i].date ELSE Today) :
            PullResponse(i, resp)
    \/ SectionView_open

SpecSection == Init /\ [][NextSection]_vars

\* pulls of a sheet that holds rows edited by hand, and the taps
NextHand ==
    \/ \E students \in Rosters : GasResponse(1, students)
    \/ \E id \in StudentIds, within \in BOOLEAN : onStudentClick(id, within)
    \/ SingleTapTimerFires
    \/ \E date \in Dates : onDateChange(date)
    \/ \E i \in 1..MaxPulls :
          \E row \in HandRows(IF i <= Len(pulls) THEN pulls[i].date ELSE Today) :
            PullResponse(i, [table |-> TRUE, rows |-> <<row>>])

SpecHand == Init /\ [][NextHand]_vars

\* pulls answered with a row without student id next to a valid one
NextMixed ==
    \/ \E students \in Rosters : GasResponse(1, students)
    \/ \E date \in Dates : onDateChange(date)
    \/ \E batch \in Batches : onBatchChange(batch)
    \/ \E i \in 1..MaxPulls :
          \E resp \in MixedResponses(IF i <= Len(pulls) THEN pulls[i].date ELSE Today) :
            PullResponse(i, resp)

SpecMixed == Init /\ [][NextMixed]_vars

\* the Store on its own: its methods in any order
NextCells ==
    \/ \E students \in Rosters : Store_setStudents(students)
    \/ \E batchKey \in Batches : Store_initDateBatch(Today, batchKey)
    \/ \E id \in StudentIds, status \in STATUSES : Store_setStatus(id, status)

SpecCells == Init /\ [][NextCells]_vars

\* taps and their timer on one date and batch, with the roster and the pulls
NextTouch ==
    \/ \E students \in Rosters : GasResponse(1, students)
    \/ \E id \in StudentIds, within \in BOOLEAN : onStudentClick(id, within)
    \/ SingleTapTimerFires
    \/ \E i \in 1..MaxPulls : \E resp \in OneRowResponses(IF i <= Len(pulls) THEN pulls[i].date ELSE Today) :
            PullResponse(i, resp)

\* a timer set with setTimeout(..., 250) fires unless it is cleared
SpecTouchFair == Init /\ [][NextTouch]_vars /\ WF_vars(SingleTapTimerFires)

\* the search box and the save dialog
NextFind ==
    \/ GasResponse(1, <<"s1", "s2">>)
    \/ \E value \in Queries : onSearchInput(value)
    \/ onSearch
    \/ AnimationFrame
    \/ \E batch \in Batches : onBatchChange(batch)
    \/ onSaveClick
    \/ onPhotoSelected
    \/ onConfirmSave
    \/ \E i \in 1..MaxSaves, success \in BOOLEAN : PushResponse(i, success)

SpecFind == Init /\ [][NextFind]_vars

\* a click on a card while today's first batch is displayed
onStudentClickToday(studentId, within) ==
    /\ currentDate = Today
    /\ currentBatch = Batch1
    /\ onStudentClick(studentId, within)

\* taps on the cards of today's first batch, their timer, the date and batch
\* selectors, which stay usable while the timer is pending, and the pulls
NextTap ==
    \/ GasResponse(1, <<"s1", "s2">>)
    \/ \E id \in StudentIds, within \in BOOLEAN : onStudentClickToday(id, within)
    \/ SingleTapTimerFires
    \/ \E date \in Dates : onDateChange(date)
    \/ \E batch \in Batches : onBatchChange(batch)
    \/ \E i \in 1..MaxPulls : \E resp \in OneRowResponses(IF i <= Len(pulls) THEN pulls[i].date ELSE Today) :
            PullResponse(i, resp)

SpecTap == Init /\ [][NextTap]_vars

\* a save with its photo proof, and the backend's executions of the save and of the
\* photo upload
NextPhoto ==
    \/ GasResponse(1, <<"s1">>)
    \/ onSaveClick
    \/ onPhotoSelected
    \/ onConfirmSave
    \/ \E i \in 1..MaxSaves : PushResponse(i, TRUE)
    \/ \E i \in 1..MaxSaves, ok \in BOOLEAN : PhotoUploadEnds(i, ok)
    \/ saveAttendanceViaGet(Today, Batch1, <<[studentId |-> "s1", code |-> "p"]>>)
    \/ \E i \in 1..MaxExecs : getLastRow(i)
    \/ \E i \in 1..MaxExecs : setValues(i)
    \/ \E photoUrl \in PhotoUrls : uploadPhotoAndUpdateSheet(Today, Batch1, photoUrl)

SpecPhoto == Init /\ [][NextPhoto]_vars

\* the roster fetches with both of their ways to fail, the refresh that starts one and
\* the batch selector
NextRoster ==
    \/ \E i \in 1..MaxFetches, students \in Rosters : GasResponse(i, students)
    \/ \E i \in 1..MaxFetches : GasFailure(i)
    \/ \E i \in 1..MaxFetches, students \in Rosters : JsonpResponse(i, students)
    \/ \E i \in 1..MaxFetches : JsonpFailure(i)
    \/ onRefresh
    \/ \E batch \in Batches : onBatchChange(batch)

SpecRoster == Init /\ [][NextRoster]_vars

\* every operation that writes the lock set: pulls, confirmed saves, the two clears
NextKeys ==
    \/ \E date \in Dates : onDateChange(date)
    \/ \E batch \in Batches : onBatchChange(batch)
    \/ \E i \in 1..MaxPulls : \E resp \in OneRowResponses(IF i <= Len(pulls) THEN pulls[i].date ELSE Today) :
            PullResponse(i, resp)
    \/ onSaveClick
    \/ onPhotoSelected
    \/ onConfirmSave
    \/ \E i \in 1..MaxSaves : PushResponse(i, TRUE)
    \/ \E i \in 1..MaxSaves : PhotoUploadEnds(i, TRUE)
    \/ onClearToday
    \/ onClearAll

SpecKeys == Init /\ [][NextKeys]_vars

\* the merge view: statuses set by taps and by pulls, groups removed by the clears,
\* then the report and the export
NextMerge ==
    \/ \E students \in {<<"s1">>, <<"s2", "s1">>} : GasResponse(1, students)
    \/ \E id \in StudentIds, within \in BOOLEAN : onStudentClick(id, within)
    \/ SingleTapTimerFires
    \/ \E batch \in Batches : onBatchChange(batch)
    \/ \E resp \in OneRowResponses(Today) : PullResponse(1, resp)
    \/ onClearToday
    \/ onClearAll
    \/ MergeView_open
    \/ MergeView_exportExcel

SpecMerge == Init /\ [][NextMerge]_vars

\* the save protocol with the events the save request is sure to get: the JSONP answer,
\* script.onerror, or the 30 s timer, which is always armed
NextSubmit ==
    \/ GasResponse(1, <<"s1", "s2">>)
    \/ onStudentClick("s1", TRUE)
    \/ onSaveClick
    \/ onPhotoSelected
    \/ onModalBackdropClick
    \/ onConfirmSave
    \/ \E i \in 1..MaxSaves, success \in BOOLEAN : PushResponse(i, success)
    \/ \E i \in 1..MaxSaves : PushError(i)
    \/ \E i \in 1..MaxSaves : PushTimeout(i)
    \/ \E i \in 1..MaxSaves : PushLateResponse(i)
    \/ \E i \in 1..MaxSaves, ok \in BOOLEAN : PhotoUploadEnds(i, ok)
    \/ \E batch \in Batches : onBatchChange(batch)

\* one of the three events of the save request of flow i
PushSettles(i) ==
    \/ \E success \in BOOLEAN : PushResponse(i, success)
    \/ PushError(i)
    \/ PushTimeout(i)

SpecSubmitFair ==
    Init /\ [][NextSubmit]_vars /\ \A i \in 1..MaxSaves : WF_vars(PushSettles(i))

\* roster fetches and attendance pulls in flight together, refresh included
NextSync ==
    \/ \E i \in 1..MaxFetches : \E students \in {<<"s1">>, <<"s2", "s1">>} : GasResponse(i, students)
    \/ onRefresh
    \/ \E i \in 1..MaxPulls : \E resp \in OneRowResponses(IF i <= Len(pulls) THEN pulls[i].date ELSE Today) :
            PullResponse(i, resp)

SpecSync == Init /\ [][NextSync]_vars

\* the backend alone: save requests of any device, handled concurrently
NextRemote ==
    \/ \E date \in Dates, batch \in Batches, records \in RecordLists :
            saveAttendanceViaGet(date, batch, records)
    \/ \E i \in 1..MaxExecs : getLastRow(i)
    \/ \E i \in 1..MaxExecs : setValues(i)

SpecRemote == Init /\ [][NextRemote]_vars

\* ------------------------------------------------------------ C1 and C2
\* the cell group stored for a lock key, EmptyMap when there is none
GroupOf(att, key) == IF HasGroup(att, key[1], key[2]) THEN att[key[1]][key[2]] ELSE EmptyMap

\* a step of a user action on a status: a click on a card, the single-tap timer it
\* started, a popover action
UserStatusAction ==
    \/ \E id \in StudentIds, within \in BOOLEAN : onStudentClick(id, within)
    \/ SingleTapTimerFires
    \/ \E action \in STATUSES : onPopoverAction(action)

\* C1: once (date,batch) is in the lock set, no user action (single tap, double tap,
\* popover action) changes a status stored for that (date,batch)
C1_LockedStatusesKept ==
    [][UserStatusAction =>
        \A key \in lockedBatches : GroupOf(attendance', key) = GroupOf(attendance, key)]_vars

\* C2: Store.setStatus called while the current (date,batch) is locked leaves the
\* ledger (every cell group and the lock set) as it was. The single-tap timer is the
\* caller that reaches setStatus without a lock check.
C2_SetStatusLockedNoOp ==
    [][(isLocked /\ SingleTapTimerFires) =>
        (attendance' = attendance /\ lockedBatches' = lockedBatches)]_vars

\* ------------------------------------------------------------ C3, C4, C5
\* C3: when a push for (D,b) is acknowledged as success, the key added to the lock set
\* is the (D,b) whose records were submitted, whatever date or batch changes were made
\* while the push was in flight
C3_LocksSubmittedKey ==
    \A i \in 1..Len(saves) :
        saves[i].locked # NoKey => saves[i].locked = lockKey(saves[i].date, saves[i].batch)

FailedOutcomes == {"error", "neterror", "timeout"}

View == getComputed(cache, studentOrder, studentMap, attendance, currentDate, currentBatch,
                    searchQuery)

\* C6: in every reachable state, what getComputed returns equals a from-scratch
\* computation over the roster, the ledger, currentDate, currentBatch and searchQuery
C6_CacheConsistent ==
    View = Compute(studentOrder, studentMap, attendance, currentDate, currentBatch, searchQuery)

\* the cache is valid after a status write, a pull that locked a batch and a search
\* change, with somebody present in the filtered view
C6_Witness ==
    /\ cache.valid
    /\ cache.present # <<>>
    /\ searchQuery # <<>>
    /\ lockedBatches # {}

\* the ids found in a sequence of ids
Members(view) ==
    Range(view.visible) \cup Range(view.present) \cup Range(view.absent) \cup Range(view.leave)

\* C7: when the current batch is batch_02, a student with status present in batch_01 on
\* the current date is in none of visible, present, absent, leave of the computed view
C7_Batch1PresentExcluded ==
    currentBatch = Batch2 =>
        \A X \in StudentIds :
            (HasGroup(attendance, currentDate, Batch1)
                /\ Get(attendance[currentDate][Batch1], X) = PRESENT) => X \notin Members(View)

\* batch_02 is shown with a valid cache, a rostered student is present in batch_01 and
\* another student is visible
C7_Witness ==
    /\ currentBatch = Batch2
    /\ cache.valid
    /\ cache.visible # <<>>
    /\ \E X \in DOMAIN studentMap :
          /\ HasGroup(attendance, currentDate, Batch1)
          /\ Get(attendance[currentDate][Batch1], X) = PRESENT

\* the ids getStatus is asked about: the rostered ones and one nobody knows
AskedIds == StudentIds \cup {"s9"}

\* C10: in every reachable state getStatus returns leave for any student id when the
\* current (date,batch) has no cell group and for any id with no entry in the cell
\* group, and it never returns undefined
C10_DefaultLeave ==
    \A id \in AskedIds :
        /\ getStatus(id) # Undefined
        /\ (~HasGroup(attendance, currentDate, currentBatch)
              \/ id \notin DOMAIN attendance[currentDate][currentBatch]) => getStatus(id) = LEAVE

\* the current cell group exists and a rostered student has no entry in it
C10_Witness ==
    /\ HasGroup(attendance, currentDate, currentBatch)
    /\ \E id \in DOMAIN studentMap : id \notin DOMAIN attendance[currentDate][currentBatch]

\* ------------------------------------------------------------ C8, C9
\* the rows of a response that belong to the pulled date and to batch b
RowsOfBatch(rows, date, b) == {k \in 1..Len(rows) : rows[k].c0 = date /\ RowBatchKey(rows[k]) = b}

\* those of them that carry a student id
IdRowsOfBatch(rows, date, b) == {k \in RowsOfBatch(rows, date, b) : rows[k].c2 # ""}

Last(S) == CHOOSE m \in S : \A n \in S : n <= m

\* every known student at leave, overlaid with the remote statuses of batch b: the last
\* row of a student decides, an empty status cell reads as leave
ExpectedGroup(smap, rows, date, b) ==
    LET mine == IdRowsOfBatch(rows, date, b)
        Of(id) == {k \in mine : rows[k].c2 = id}
    IN [id \in DOMAIN smap \cup {rows[k].c2 : k \in mine} |->
            IF Of(id) = {} THEN LEAVE ELSE RowStatus(rows[Last(Of(id))])]

\* per date, the responses paired with each batch they carry a row for, and with each
\* batch they carry a row with a student id for; `found` is the set of batches the
\* response locks
Case(date, resp, b) == [resp |-> resp, b |-> b, found |-> BatchesFound(resp.rows, date)]
RowCases ==
    [date \in Dates |->
        {Case(date, c[1], c[2]) :
            c \in {c \in Responses(date) \X Batches : RowsOfBatch(c[1].rows, date, c[2]) # {}}}]
IdRowCases ==
    [date \in Dates |->
        {Case(date, c[1], c[2]) :
            c \in {c \in Responses(date) \X Batches : IdRowsOfBatch(c[1].rows, date, c[2]) # {}}}]

\* the step is the callback of pull i running on the response of a case (the locks the
\* step adds are compared first: they tell most responses apart)
PullApplies(i, case) ==
    /\ i \in 1..Len(pulls)
    /\ pulls[i].phase = "wait"
    /\ pulls'[i].phase = "done"
    /\ lockedBatches' = lockedBatches \cup {lockKey(pulls[i].date, b) : b \in case.found}
    /\ PullResponse(i, case.resp)

\* after the step, batch b of the pulled date holds the expected group and is locked
ReplacedAndLocked(i, resp, b) ==
    /\ GroupOf(attendance', <<pulls[i].date, b>>)
          = ExpectedGroup(studentMap, resp.rows, pulls[i].date, b)
    /\ HasGroup(attendance', pulls[i].date, b)
    /\ lockKey(pulls[i].date, b) \in lockedBatches'

C9_TrueIffApplied ==
    [][\A i \in 1..Len(pulls) :
          (pulls[i].result = None /\ pulls'[i].result # None) =>
              (pulls'[i].result = "true" <=>
                  \E resp \in Responses(pulls[i].date) :
                      /\ PullResponse(i, resp)
                      /\ resp.table
                      /\ KeptCount(resp, pulls[i].date) > 0)]_vars

\* ------------------------------------------------------------ C11
\* C11: after any sequence of save requests handled by the backend, repeated and
\* overlapping ones included, the attendance sheet holds at most one row per
\* (date, batch, studentId)
C11_OneRowPerKey ==
    \A k, l \in 1..Len(sheet) :
        (sheet[k].c0 = sheet[l].c0 /\ sheet[k].c1 = sheet[l].c1 /\ sheet[k].c2 = sheet[l].c2)
            => k = l

\* ------------------------------------------------------------ C12
\* what the two completions read and write: the roster, the cell groups, the lock set
Here == [roster |-> studentOrder, smap |-> studentMap, att |-> attendance, locks |-> lockedBatches]

\* the state the roster callback leaves when it runs in st
AfterRoster(st, students) ==
    [roster |-> setStudentsOrder(students), smap |-> setStudentsMap(students),
     att |-> initDateBatch(st.att, setStudentsMap(students), currentDate, currentBatch),
     locks |-> st.locks]

\* the state the pull callback of date leaves when it runs in st
AfterPull(st, resp, date) ==
    IF resp.table /\ Len(resp.rows) > 0
    THEN [st EXCEPT !.att = PullAttendance(st.att, st.smap, resp.rows, date),
                    !.locks = PullLocks(st.locks, resp.rows, date)]
    ELSE st

\* same roster, same lock set, same status of every roster student in both batches of date
SameOutcome(x, y, date) ==
    /\ x.roster = y.roster
    /\ x.locks = y.locks
    /\ \A b \in Batches, id \in Range(x.roster) :
            getStatusAt(x.att, date, b, id) = getStatusAt(y.att, date, b, id)

OrdersAgree ==
    \A i \in 1..Len(pulls), j \in 1..Len(rosterFetch) :
        (PullCallbackDefined(pulls[i]) /\ rosterFetch[j].phase = "gas")
            => \A students \in Rosters, resp \in Responses(pulls[i].date) :
                    SameOutcome(AfterPull(AfterRoster(Here, students), resp, pulls[i].date),
                                AfterRoster(AfterPull(Here, resp, pulls[i].date), students),
                                pulls[i].date)

\* C12: when a roster fetch and an attendance pull are both in flight, roster-then-pull
\* and pull-then-roster end with the same roster, the same lock set and the same
\* getStatus result for every roster student in every batch of the pulled date; the
\* two callbacks act on the roster, the cell groups and the lock set as composed here
C12_OrdersAgree ==
    /\ []OrdersAgree
    /\ [][\A i \in 1..Len(rosterFetch) : \A students \in Rosters :
            GasResponse(i, students) => Here' = AfterRoster(Here, students)]_vars
    /\ [][\A i \in 1..Len(pulls) : \A resp \in Responses(pulls[i].date) :
            PullResponse(i, resp) => Here' = AfterPull(Here, resp, pulls[i].date)]_vars

\* both were in flight, the pull changed a cell group and a lock, and both have completed
C12_Witness ==
    /\ Len(rosterFetch) = 2 /\ rosterFetch[2].phase = "done"
    /\ Len(pulls) = 2 /\ pulls[2].phase = "done" /\ pulls[2].result = "true"
    /\ studentOrder # <<>>
    /\ lockedBatches # {}

\* ------------------------------------------------------------ C13
\* the cell groups a date holds and the lock keys of a date
GroupsOfDate(att, d) == [b \in {x \in Batches : HasGroup(att, d, x)} |-> att[d][b]]
KeysOfDate(locks, d) == {k \in locks : k[1] = d}

\* pull i completes in this step: its callback, its onerror or its timeout ran
PullCompletes(i) ==
    /\ i \in 1..Len(pulls)
    /\ PullCallbackDefined(pulls[i])
    /\ ~PullCallbackDefined(pulls'[i])

\* C13: the completion of a pull for date D leaves the cell groups and the lock keys
\* of every other date as they were, whatever currentDate is by then
C13_PullFrame ==
    [][\A i \in 1..Len(pulls) :
            PullCompletes(i)
                => \A d \in Dates \ {pulls[i].date} :
                        /\ GroupsOfDate(attendance', d) = GroupsOfDate(attendance, d)
                        /\ KeysOfDate(lockedBatches', d) = KeysOfDate(lockedBatches, d)]_vars

\* a pull of a date that is no longer on screen has been applied and locked a batch,
\* and another date holds a locked cell group
C13_Witness ==
    \E i \in 1..Len(pulls) :
        /\ pulls[i].date # currentDate
        /\ pulls[i].result = "true"
        /\ KeysOfDate(lockedBatches, pulls[i].date) # {}
        /\ \E d \in Dates \ {pulls[i].date} :
                KeysOfDate(lockedBatches, d) # {} /\ GroupsOfDate(attendance, d) # EmptyMap

\* ------------------------------------------------------------ C14
\* flow i is between Confirm and the end of onConfirmSave
Submitting(i) == i \in 1..Len(saves) /\ saves[i].phase \in {"push", "photo"}

\* flow i has run to the end of onConfirmSave
SaveEnded(i) == i \in 1..Len(saves) /\ saves[i].phase \in {"done", "timedout"}

\* flow i ended locked after a successful push
EndedLocked(i) == SaveEnded(i) /\ saves[i].outcome = "success" /\ saves[i].locked # NoKey

\* flow i ended without locking after a failed push
EndedUnlocked(i) == SaveEnded(i) /\ saves[i].outcome \in FailedOutcomes /\ saves[i].locked = NoKey

\* C14: every confirmed save that enters Submitting eventually leaves it, locked after
\* a successful push or unlocked after a failed one, given that the response, the
\* error or the timeout of the save request eventually fires
C14_SaveEnds ==
    \A i \in 1..MaxSaves : Submitting(i) ~> (EndedLocked(i) \/ EndedUnlocked(i))

\* the same with the photo upload that follows a successful push settling as well
C14_SaveEndsIfUploadSettles ==
    (\A i \in 1..MaxSaves : WF_vars(\E ok \in BOOLEAN : PhotoUploadEnds(i, ok)))
        => C14_SaveEnds

\* ------------------------------------------------------------ C15
\* the marker replaced by leave
Normalized(v) == IF v = MissingMark THEN LEAVE ELSE v

Precedence(b1, b2) ==
    IF PRESENT \in {b1, b2} THEN PRESENT
    ELSE IF ABSENT \in {b1, b2} THEN ABSENT
    ELSE LEAVE

\* C16: for all b1, b2 in {present, absent, leave} getFinalStatus(b1, b2) is the
\* precedence of the two and does not depend on their order; so is the final status of
\* every report row whose two batches have a cell group
C16_MergePrecedence ==
    /\ \A b1 \in STATUSES, b2 \in STATUSES :
            /\ getFinalStatus(b1, b2) = Precedence(b1, b2)
            /\ getFinalStatus(b1, b2) = getFinalStatus(b2, b1)
    /\ \A k \in 1..Len(mergeReport.rows) :
            LET r == mergeReport.rows[k]
            IN (r.batch1Status \in STATUSES /\ r.batch2Status \in STATUSES)
                    => r.finalStatus = Precedence(r.batch1Status, r.batch2Status)

\* a report row merges two different statuses, neither of them leave
C16_Witness ==
    \E k \in 1..Len(mergeReport.rows) :
        /\ mergeReport.rows[k].batch1Status \in {PRESENT, ABSENT}
        /\ mergeReport.rows[k].batch2Status \in {PRESENT, ABSENT}
        /\ mergeReport.rows[k].batch1Status # mergeReport.rows[k].batch2Status

\* ------------------------------------------------------------ C17
\* the roster students whose status in batch b of the date on screen is status
StudentsWith(b, status) ==
    {id \in Range(studentOrder) : getStatusAt(attendance, currentDate, b, id) = status}

\* C17: whenever the roster has a student the report is built; it has exactly one row
\* for every roster student, its three final counters add up to the roster size,
\* finalPresent counts the students present in at least one batch, and the four batch
\* counters count the roster students with that status in that batch
C17_ReportCounts ==
    [][MergeView_open =>
        /\ studentOrder # <<>> => mergeReport'.open
        /\ (HasGroup(attendance, currentDate, Batch1) \/ HasGroup(attendance, currentDate, Batch2))
            => LET r == mergeReport'
               IN /\ Len(r.rows) = Len(studentOrder)
                  /\ {r.rows[k].id : k \in 1..Len(r.rows)} = Range(studentOrder)
                  /\ Cardinality(Range(studentOrder)) = Len(studentOrder)
                  /\ r.finalPresent + r.finalAbsent + r.finalLeave = Len(studentOrder)
                  /\ r.finalPresent = Cardinality(StudentsWith(Batch1, PRESENT)
                                                  \cup StudentsWith(Batch2, PRESENT))
                  /\ r.b1Present = Cardinality(StudentsWith(Batch1, PRESENT))
                  /\ r.b1Absent = Cardinality(StudentsWith(Batch1, ABSENT))
                  /\ r.b2Present = Cardinality(StudentsWith(Batch2, PRESENT))
                  /\ r.b2Absent = Cardinality(StudentsWith(Batch2, ABSENT))]_vars

\* a report of two students, with a non-zero counter of each batch
C17_Witness ==
    /\ mergeReport.open
    /\ Len(mergeReport.rows) = 2
    /\ mergeReport.b1Present = 1
    /\ mergeReport.b2Absent = 1

\* ------------------------------------------------------------ C18
\* C18: in every step the lock set keeps all its keys, unless the step is clear-today,
\* which removes exactly the keys of the date on screen, or clear-all, which removes all
C18_LocksStay ==
    [][\/ lockedBatches \subseteq lockedBatches'
       \/ onClearToday /\ lockedBatches' = lockedBatches \ KeysOfDate(lockedBatches, currentDate)
       \/ onClearAll /\ lockedBatches' = {}]_vars

\* a key added by a pull and a key added by a confirmed save are both in the lock set
C18_Witness ==
    /\ \E i \in 1..Len(pulls) : pulls[i].result = "true" /\ KeysOfDate(lockedBatches, pulls[i].date) # {}
    /\ \E i \in 1..Len(saves) : saves[i].locked # NoKey /\ saves[i].locked \in lockedBatches
    /\ Cardinality(lockedBatches) >= 2

\* ------------------------------------------------------------ C19
\* C19: clear-today of date D leaves no lock key of D and no cell group of D but the
\* all-leave group initDateBatch creates anew for the batch on screen, so that every
\* student reads leave in both batches of D; the cell groups and the lock keys of
\* every other date are unchanged
C19_ClearToday ==
    [][onClearToday =>
        /\ KeysOfDate(lockedBatches', currentDate) = {}
        /\ \A b \in Batches : ~isDateBatchLocked(currentDate, b)'
        /\ \A b \in Batches \ {currentBatch} : ~HasGroup(attendance', currentDate, b)
        /\ \A b \in Batches, id \in StudentIds :
                getStatusAt(attendance', currentDate, b, id) = LEAVE
        /\ \A d \in Dates \ {currentDate} :
                /\ GroupsOfDate(attendance', d) = GroupsOfDate(attendance, d)
                /\ KeysOfDate(lockedBatches', d) = KeysOfDate(lockedBatches, d)]_vars

\* after a date change and a clear-today: the pull of the date on screen was applied,
\* the date holds no lock key and only the fresh group of the batch on screen, and the
\* other date still holds its locked cell group
C19_Witness ==
    /\ steps >= 2
    /\ ~modalOpen
    /\ saves = <<>>
    /\ currentDate # Today
    /\ \E i \in 1..Len(pulls) : pulls[i].date = currentDate /\ pulls[i].result = "true"
    /\ KeysOfDate(lockedBatches, currentDate) = {}
    /\ DOMAIN GroupsOfDate(attendance, currentDate) = {currentBatch}
    /\ KeysOfDate(lockedBatches, Today) # {}
    /\ GroupsOfDate(attendance, Today) # EmptyMap

\* ------------------------------------------------------------ C20
\* the Store holds the lock set, the photo links and, for every date, batch and student,
\* the status that st does
Restores(st) ==
    /\ st.lockedBatches = lockedBatches
    /\ st.photoUrls = photoUrls
    /\ \A d \in Dates, b \in Batches, id \in StudentIds :
            getStatusAt(st.attendance, d, b, id) = getStatusAt(attendance, d, b, id)

\* C20: loading the item saveState writes restores the same lock set, the same photo
\* URL map and the same status for every (date, batch, student) as read through
\* getStatus; and the item in localStorage, when there is one, always loads to the
\* lock set, the photo links and the statuses the Store holds
C20_RoundTrip ==
    /\ Restores(loadState(saveState(attendance, lockedBatches, photoUrls)))
    /\ stored.item => Restores(loadState(stored))

\* after a reload, before the roster has arrived: a lock key and a status that is not
\* leave have been loaded from the item
C20_Witness ==
    /\ Len(rosterFetch) = 2
    /\ rosterFetch[2].phase = "gas"
    /\ studentOrder = <<>>
    /\ stored.item
    /\ lockedBatches # {}
    /\ \E d \in Dates, b \in Batches, id \in StudentIds :
            getStatusAt(attendance, d, b, id) # LEAVE

\* ------------------------------------------------------------ C21
\* the keys a persisted lock set stands for: the elements of the list, or the
\* (date, batch) pairs of the nested structure whose flag is true
Canonical(saved) ==
    IF saved.array THEN {saved.items[k] : k \in 1..Len(saved.items)}
    ELSE {key \in Dates \X Batches :
            /\ key[1] \in DOMAIN saved.items
            /\ key[2] \in DOMAIN saved.items[key[1]]
            /\ saved.items[key[1]][key[2]]}

\* C21: loading a persisted lock set yields exactly the keys it stands for, in either
\* shape: both the load of init() and every later reload leave that lock set
C21_LoadsCanonical ==
    /\ \A item \in LegacyItems : loadState(item).lockedBatches = Canonical(item.savedBatches)
    /\ [][(Reload /\ stored.item) => lockedBatches' = Canonical(stored.savedBatches)]_vars

\* a reload has read a lock set in the nested shape, and it held a key
C21_Witness ==
    /\ Len(rosterFetch) = 2
    /\ stored.item
    /\ ~stored.savedBatches.array
    /\ lockedBatches # {}
    /\ lockedBatches = Canonical(stored.savedBatches)

\* ------------------------------------------------------------ C22
\* fetch i failed in this step: the Apps Script answer was no roster or its script
\* did not load, or the fallback did not yield a table
FetchFails(i) == GasFailure(i) \/ JsonpFailure(i)

\* C22: a step in which a roster fetch fails leaves the roster index and the roster
\* order as they were, and a fetch that ended in failure went through no step that
\* changed them: the roster changes only in the step that loads a roster
C22_FailedFetchKeepsRoster ==
    [][/\ (\E i \in 1..MaxFetches : FetchFails(i)) => UNCHANGED <<studentMap, studentOrder>>
       /\ <<studentMap, studentOrder>>' # <<studentMap, studentOrder>>
             => \E i \in 1..Len(rosterFetch) :
                    /\ rosterFetch[i].phase \in {"gas", "jsonp"}
                    /\ rosterFetch'[i].phase = "done"]_vars

\* a fetch has failed in both ways while the roster of an earlier fetch is kept
C22_Witness ==
    /\ \E i \in 1..Len(rosterFetch) : rosterFetch[i].phase = "failed"
    /\ Len(studentOrder) = 2
    /\ DOMAIN studentMap = Range(studentOrder)

\* ------------------------------------------------------------ C23
\* C23: initDateBatch on a (date, batch) that has a cell group returns the ledger it
\* was given, a second call after a first changes nothing, and a setStatus after two
\* calls leaves the ledger that a setStatus after one call leaves
C23_InitIdempotent ==
    \A dateKey \in Dates, batchKey \in Batches :
        LET once == initDateBatch(attendance, studentMap, dateKey, batchKey)
            twice == initDateBatch(once, studentMap, dateKey, batchKey)
        IN /\ HasGroup(attendance, dateKey, batchKey) => once = attendance
           /\ twice = once
           /\ \A id \in StudentIds, status \in STATUSES :
                  setStatus(twice, dateKey, batchKey, id, status)
                      = setStatus(once, dateKey, batchKey, id, status)

\* the roster was loaded after init() had created the group of the current batch, a
\* tap has written into it, and the group lacks a student of the roster
C23_Witness ==
    /\ rosterFetch[1].phase = "done"
    /\ HasGroup(attendance, currentDate, currentBatch)
    /\ \E id \in DOMAIN studentMap : getStatus(id) = PRESENT
    /\ \E id \in DOMAIN studentMap : id \notin DOMAIN attendance[currentDate][currentBatch]

\* ------------------------------------------------------------ C24
\* C24: the step in which a pull times out resolves it to false and leaves the ledger,
\* the lock set and the persisted item as they were; from then on the pull stays
\* resolved to false, and the step in which its answer arrives changes none of them
C24_TimeoutKeepsLedger ==
    [][\A i \in 1..Len(pulls) :
          /\ PullTimeout(i) =>
                /\ pulls'[i].result = "false"
                /\ UNCHANGED <<attendance, lockedBatches, stored>>
          /\ pulls[i].phase = "timedout" =>
                /\ pulls'[i].result = "false"
                /\ pulls'[i] # pulls[i] => UNCHANGED <<attendance, lockedBatches, stored>>]_vars

\* a pull has timed out, resolved to false, after another pull was merged and locked
\* a batch: the ledger and the lock set it had to keep were not empty
C24_Witness ==
    \E i, k \in 1..Len(pulls) :
        /\ pulls[i].phase = "timedout"
        /\ pulls[i].result = "false"
        /\ pulls[k].result = "true"
        /\ lockedBatches # {}
        /\ stored.item

\* ------------------------------------------------------------ C25
\* C25: when the photo upload of a save whose push succeeded fails, the save ends
\* with the batch locked and the ledger as it was; and an execution of the backend's
\* photo upload keeps every row of the sheet, changing at most its Photo_URL cell,
\* and changes nothing when the upload failed
C25_PhotoBestEffort ==
    [][/\ \A i \in 1..Len(saves) :
            PhotoUploadEnds(i, FALSE) =>
                /\ saves[i].outcome = "success"
                /\ saves'[i].phase = "done"
                /\ saves'[i].locked \in lockedBatches'
                /\ lockedBatches \subseteq lockedBatches'
                /\ attendance' = attendance
       /\ \A photoUrl \in PhotoUrls :
            uploadPhotoAndUpdateSheet(Today, Batch1, photoUrl) =>
                /\ Len(sheet') = Len(sheet)
                /\ \A k \in 1..Len(sheet) : [sheet'[k] EXCEPT !.c7 = ""] = [sheet[k] EXCEPT !.c7 = ""]
                /\ photoUrl = "" => sheet' = sheet]_vars

\* a save ended locked after its photo upload failed, and on the backend a photo
\* upload failed for a batch that has rows in the sheet
C25_Witness ==
    /\ \E i \in 1..Len(saves) :
          /\ saves[i].photo = "failed"
          /\ saves[i].locked = lockKey(saves[i].date, saves[i].batch)
          /\ saves[i].locked \in lockedBatches
    /\ \E e \in 1..Len(execs) :
          /\ execs[e].phase = "photo" /\ ~execs[e].success
          /\ checkBatchLocked(sheet, execs[e].date, execs[e].batch)

\* ------------------------------------------------------------ C26
\* C26: every tap happened while (Today, Batch1) was displayed, so the write of the
\* single-tap timer goes to that cell group and leaves every other one as it was
C26_TapWritesWhereShown ==
    [][SingleTapTimerFires =>
          \A key \in (Dates \X Batches) \ {<<Today, Batch1>>} :
              /\ HasGroup(attendance', key[1], key[2]) = HasGroup(attendance, key[1], key[2])
              /\ GroupOf(attendance', key) = GroupOf(attendance, key)]_vars

\* ------------------------------------------------------------ C27
\* C27: a step that issues a push request, the confirm of a save with the backend
\* configured, is taken only when the displayed (date, batch) is not in the lock set
C27_NoPushWhenLocked ==
    [][(onConfirmSave /\ Len(saves') > Len(saves) /\ saves'[Len(saves')].phase = "push")
          => lockKey(currentDate, currentBatch) \notin lockedBatches]_vars

\* ------------------------------------------------------------ C28
\* the students a save of (dateKey, batchKey) has to carry: the active students of the
\* roster that are not present in the first batch while the second is displayed
Submittable(smap, att, dateKey, batchKey) ==
    {id \in DOMAIN smap :
        smap[id].active /\ id \notin getBatch1PresentSet(att, dateKey, batchKey)}

\* C28: the records of a confirmed save hold exactly one row for every such student,
\* with the student's current status, whatever the search query is
C28_RecordsCoverRoster ==
    [][(onConfirmSave /\ Len(saves') > Len(saves)) =>
          LET records == saves'[Len(saves')].records
              ids == Submittable(studentMap, attendance, currentDate, currentBatch)
          IN /\ \A id \in ids :
                    Cardinality({k \in 1..Len(records) : records[k].studentId = id}) = 1
             /\ \A k \in 1..Len(records) :
                    /\ records[k].studentId \in ids
                    /\ records[k].status = getStatus(records[k].studentId)]_vars

\* ------------------------------------------------------------ C29
\* C29: once a single tap on the card of a student, shown with some status, has been
\* taken, the status of that student eventually is no longer that status
C29_TapLeadsToTransition ==
    \A id \in StudentIds, status \in STATUSES :
        (singleTapTimer = [studentId |-> id, currentStatus |-> status])
            ~> (getStatus(id) # status)

\* ------------------------------------------------------------ C30
\* setStatus(id, status) runs in this step on a current (date, batch) without a group
CreatesGroup(id, status) ==
    /\ Store_setStatus(id, status)
    /\ ~HasGroup(attendance, currentDate, currentBatch)

RosterCounts(dateKey, batchKey) ==
    LET With(status) == {id \in DOMAIN studentMap :
                            getStatusAt(attendance, dateKey, batchKey, id) = status}
    IN [present |-> Cardinality(With(PRESENT)), absent |-> Cardinality(With(ABSENT)),
        leave |-> Cardinality(With(LEAVE))]

\* C31: for each batch of the current date that has a cell group, the counts the
\* section view shows are the counts of the roster students by status, and they add
\* up to the roster size
C31_SectionCounts ==
    [][SectionView_open =>
          \A b \in Batches :
              HasGroup(attendance, currentDate, b) =>
                  LET shown == sectionBody'.stats[b]
                  IN /\ shown = RosterCounts(currentDate, b)
                     /\ shown.present + shown.absent + shown.leave = Cardinality(DOMAIN studentMap)]_vars

\* ------------------------------------------------------------ C32
\* C32: a setStatus(id, status) on the current (date, batch) writes the entry of id and
\* leaves the entry of every other student of that group, the cell group of every
\* other (date, batch), the lock set and the roster as they were
C32_SetStatusFrame ==
    [][\A id \in StudentIds, status \in STATUSES :
          Store_setStatus(id, status) =>
              /\ GroupOf(attendance', <<currentDate, currentBatch>>)[id] = status
              /\ \A x \in StudentIds \ {id} :
                    Get(GroupOf(attendance', <<currentDate, currentBatch>>), x)
                        = Get(GroupOf(attendance, <<currentDate, currentBatch>>), x)
              /\ \A key \in (Dates \X Batches) \ {<<currentDate, currentBatch>>} :
                    /\ HasGroup(attendance', key[1], key[2]) = HasGroup(attendance, key[1], key[2])
                    /\ GroupOf(attendance', key) = GroupOf(attendance, key)
              /\ UNCHANGED <<lockedBatches, studentMap, studentOrder>>]_vars

\* a write has changed one of two entries of the current group that are not leave,
\* while the other batch of the date has a group
C32_Witness ==
    /\ HasGroup(attendance, currentDate, currentBatch)
    /\ HasGroup(attendance, currentDate, Batch2)
    /\ currentBatch = Batch1
    /\ DOMAIN attendance[currentDate][currentBatch] = {"s1", "s2"}
    /\ attendance[currentDate][currentBatch]["s1"] = PRESENT
    /\ attendance[currentDate][currentBatch]["s2"] = ABSENT
    /\ DOMAIN studentMap = {"s1", "s2"}

\* ------------------------------------------------------------ C33
\* list holds distinct students of order, in the order they have there
InOrderOf(list, order) ==
    /\ Range(list) \subseteq Range(order)
    /\ \A i, j \in 1..Len(list) :
          i < j => \E a, b \in 1..Len(order) : a < b /\ order[a] = list[i] /\ order[b] = list[j]

\* C33: in every computed view the three buckets are pairwise disjoint, together they
\* hold the visible students, and visible and each bucket list their students in the
\* order of the roster
C33_BucketsPartition ==
    cache.valid =>
        /\ Range(cache.present) \cap Range(cache.absent) = {}
        /\ Range(cache.present) \cap Range(cache.leave) = {}
        /\ Range(cache.absent) \cap Range(cache.leave) = {}
        /\ Range(cache.present) \cup Range(cache.absent) \cup Range(cache.leave) = Range(cache.visible)
        /\ Len(cache.present) + Len(cache.absent) + Len(cache.leave) = Len(cache.visible)
        /\ InOrderOf(cache.visible, studentOrder)
        /\ InOrderOf(cache.present, studentOrder)
        /\ InOrderOf(cache.absent, studentOrder)
        /\ InOrderOf(cache.leave, studentOrder)

\* a computed view of a roster loaded as s2, s1 shows both, the first at leave and the
\* second in another bucket
C33_Witness ==
    /\ cache.valid
    /\ studentOrder = <<"s2", "s1">>
    /\ cache.visible = <<"s2", "s1">>
    /\ cache.leave = <<"s2">>
    /\ cache.present = <<"s1">>

\* ------------------------------------------------------------ C34
\* C34: every status the ledger holds is present, absent or leave
C34_StatusesInEnum ==
    \A d \in DOMAIN attendance : \A b \in DOMAIN attendance[d] :
        \A id \in DOMAIN attendance[d][b] : attendance[d][b][id] \in STATUSES

\* ------------------------------------------------------------ C35
\* C35: when a pull is answered with a row without student id next to a valid row of
\* the pulled date, the pull resolves true, the valid row is overlaid on its batch,
\* which is locked, every rostered student it does not name is at leave there, and the
\* row without id leaves no entry and locks nothing
C35_MissingIdDropped ==
    [][\A i \in 1..Len(pulls) :
          (pulls[i].phase = "wait" /\ pulls'[i].phase = "done") =>
              \A resp \in MixedResponses(pulls[i].date) :
                  PullResponse(i, resp) =>
                      LET date == pulls[i].date
                          valid == IF resp.rows[1].c2 # "" THEN resp.rows[1] ELSE resp.rows[2]
                          b == RowBatchKey(valid)
                      IN /\ pulls'[i].result = "true"
                         /\ HasGroup(attendance', date, b)
                         /\ DOMAIN attendance'[date][b] = DOMAIN studentMap \cup {valid.c2}
                         /\ attendance'[date][b][valid.c2] = RowStatus(valid)
                         /\ \A x \in DOMAIN studentMap \ {valid.c2} : attendance'[date][b][x] = LEAVE
                         /\ lockedBatches' = lockedBatches \cup {lockKey(date, b)}
                         /\ \A o \in Batches \ {b} :
                               GroupOf(attendance', <<date, o>>) = GroupOf(attendance, <<date, o>>)]_vars

\* a pull answered with such a pair has resolved true and locked the batch of the valid
\* row alone, whose group holds the row's student as absent and a rostered one at leave
C35_Witness ==
    \E i \in 1..Len(pulls) :
        /\ pulls[i].result = "true"
        /\ lockedBatches = {lockKey(pulls[i].date, Batch2)}
        /\ HasGroup(attendance, pulls[i].date, Batch2)
        /\ DOMAIN attendance[pulls[i].date][Batch2] = {"s1", "s2"}
        /\ attendance[pulls[i].date][Batch2]["s2"] = ABSENT
        /\ attendance[pulls[i].date][Batch2]["s1"] = LEAVE

\* ------------------------------------------------------------ C36
\* the rows the backend writes for the records of a save, and the ledger a pull of the
\* date of the save builds from them on an empty ledger
PushedRows(flow) == BuildRows(flow.date, flow.batch, CompactRecords(flow.records))
ReadBack(flow) == PullAttendance(EmptyMap, studentMap, PushedRows(flow), flow.date)

\* C36: for every save that was pushed successfully, a pull of its date that reads the
\* rows the backend wrote for it yields, under the batch key of the save, the submitted
\* status of every submitted student, and locks that batch alone
C36_RoundTrip ==
    \A i \in 1..Len(saves) :
        saves[i].outcome = "success" =>
            /\ \A k \in 1..Len(saves[i].records) :
                  /\ HasGroup(ReadBack(saves[i]), saves[i].date, saves[i].batch)
                  /\ Get(ReadBack(saves[i])[saves[i].date][saves[i].batch],
                         saves[i].records[k].studentId) = saves[i].records[k].status
            /\ saves[i].records # <<>> =>
                  PullLocks({}, PushedRows(saves[i]), saves[i].date)
                      = {lockKey(saves[i].date, saves[i].batch)}

\* a save that carried one student as present and one at leave was pushed successfully
C36_Witness ==
    \E i \in 1..Len(saves) :
        /\ saves[i].outcome = "success"
        /\ \E k, l \in 1..Len(saves[i].records) :
              /\ saves[i].records[k].status = PRESENT
              /\ saves[i].records[l].status = LEAVE

\* ------------------------------------------------------------ C37
\* the transitions of the claim: what a single tap and what a double tap make of a status
SingleTapMove(status) ==
    CASE status = LEAVE -> PRESENT [] status = PRESENT -> LEAVE [] status = ABSENT -> LEAVE
DoubleTapMove(status) ==
    CASE status = ABSENT -> LEAVE [] status = LEAVE -> ABSENT [] status = PRESENT -> ABSENT

\* the step is the second tap of a double tap on the card of id
DoubleTapOn(id) ==
    /\ ClickAllowed
    /\ lastTapStudentId = id
    /\ onStudentClick(id, TRUE)

\* C37: the pending action of a single tap writes the single-tap transition of the
\* status the card showed; a double tap writes the double-tap transition and cancels
\* the pending action; and the pending action of a tap on one card is never dropped
\* without a write, that is, it ends by firing or by a double tap on that card
C37_TapMachine ==
    [][/\ SingleTapTimerFires =>
             getStatusAt(attendance', currentDate', currentBatch', singleTapTimer.studentId) =
                 SingleTapMove(singleTapTimer.currentStatus)
       /\ \A id \in StudentIds :
             DoubleTapOn(id) =>
                 /\ getStatusAt(attendance', currentDate', currentBatch', id) = DoubleTapMove(cards[id])
                 /\ singleTapTimer' = NoTimer
       /\ (singleTapTimer # NoTimer /\ singleTapTimer'.studentId # singleTapTimer.studentId) =>
             \/ SingleTapTimerFires
             \/ DoubleTapOn(singleTapTimer.studentId)]_vars

\* ------------------------------------------------------------ C38
\* the view computed directly with the value of the search box
DirectView == Compute(studentOrder, studentMap, attendance, currentDate, currentBatch, searchInput)

\* C38: when no debounce timer is pending (the timer of the last keystroke has fired),
\* searchQuery is the value of the search box, a computed view is the view computed
\* directly with that value, and once the scheduled render has run the cards on the
\* screen are the cards of that view
C38_DebounceFinal ==
    ~searchTimer =>
        /\ searchQuery = searchInput
        /\ cache.valid => cache = DirectView
        /\ (cache.valid /\ ~rafPending) => cards = CardsOf(DirectView)

\* after two user steps the box holds " B", the timer has fired and the render has run:
\* of the roster s1, s2 the view shows s2 (Bo) only
C38_Witness ==
    /\ steps = 2
    /\ ~searchTimer
    /\ ~rafPending
    /\ searchInput = <<" ", "B">>
    /\ searchQuery = <<" ", "B">>
    /\ studentOrder = <<"s1", "s2">>
    /\ cache.valid
    /\ cache.visible = <<"s2">>
    /\ DOMAIN cards = {"s2"}
    /\ currentDate = Today
    /\ currentBatch = Batch1
    /\ lastTapStudentId = None

====
